---- MODULE Spec2Model ----
(***************************************************************************)
(* Model of midi_tones: the valve-event builder and the dispatch loop of   *)
(* example_organ_player.py, the note-interval extraction, grouping and     *)
(* tempo map of miditones/parser.py, and the voice table of PipeOrgan in   *)
(* pipe_organ_interface.py with its audio callback.                        *)
(*                                                                         *)
(* Time.  The source computes with floats.  The model computes with exact  *)
(* rationals: on the organ player's timeline every time is kept as the     *)
(* integer numerator of a fraction whose denominator is `speed`, so        *)
(* tone.start_time / speed is the integer tone.start_time and a limit or   *)
(* delay d given in seconds is d * speed.  In the parser a time is the     *)
(* numerator ticks * tempo_us of a fraction over                           *)
(* ticks_per_beat * 1000000.  In PipeOrgan a gain is the numerator of a    *)
(* fraction over ramp_samples.                                             *)
(*                                                                         *)
(* Tones.  build_valve_events and play_events read tone.duration_ticks and *)
(* tone.start_tick; a tone is modelled as an object that carries the       *)
(* attributes these functions read.                                        *)
(***************************************************************************)
EXTENDS Integers, Sequences, FiniteSets, TLC

VARIABLES
    \* example_organ_player.py: arguments of build_valve_events
    track, turn_on_delay, turn_off_delay, speed, start_time_limit, stop_time_limit,
    \* example_organ_player.py: play_events
    events, pc, idx, open_valves, calls, now, pending,
    \* miditones/parser.py: process_track_events
    midi_track, tempo_map, ticks_per_beat, ppc, msg_i, current_tick, active_notes,
    note_events, tone_groups, track_info,
    \* miditones/midi.py, miditones/parser.py: Midi.__init__, build_tempo_map,
    \* calculate_absolute_time
    midi_file, mpc, abs_times,
    \* pipe_organ_interface.py: PipeOrgan, its caller's thread and the audio callback
    use_audio, ramp_samples, voices, lock, stream, spc, valve_index, found, cpc,
    frames, options, sample_rate, phase,
    \* history of the calls on PipeOrgan
    open_close, closed_all,
    \* stepper_interface.py: StepperInterface._active_freq
    active_freq

vars == <<track, turn_on_delay, turn_off_delay, speed, start_time_limit,
          stop_time_limit, events, pc, idx, open_valves, calls, now, pending,
          midi_track, tempo_map, ticks_per_beat, ppc, msg_i, current_tick,
          active_notes, note_events, tone_groups, track_info, midi_file, mpc, abs_times,
          use_audio, ramp_samples, voices, lock, stream, spc, valve_index, found, cpc,
          frames, options, sample_rate, phase, open_close, closed_all, active_freq>>

midiVars == <<midi_file, mpc, abs_times>>

organVars == <<use_audio, ramp_samples, voices, lock, stream, spc, valve_index, found,
               cpc, frames, options, sample_rate, phase, open_close, closed_all>>

parseArgs == <<midi_track, tempo_map, ticks_per_beat>>

parseVars == <<midi_track, tempo_map, ticks_per_beat, ppc, msg_i, current_tick,
               active_notes, note_events, tone_groups, track_info>>

playVars == <<events, pc, idx, open_valves, calls, now, pending>>

buildArgs == <<track, turn_on_delay, turn_off_delay, speed, start_time_limit,
               stop_time_limit>>

motorVars == <<active_freq>>

----------------------------------------------------------------------------
(* Bounds of the model *)

MaxTones == 2
MaxDur == 2
MaxEvents == 3
MaxMsgs == 3

(* Input alphabets *)
Pitches == {60, 64}
Velocities == {0, 64}
Deltas == {0, 1}
StartTimes == {0, 1}
Delays == {0, 1, 2}
StopTimes == {0, 1, 2}
Speeds == {1, 2}
Lags == {0, 1}
DurationTicksPerUnit == {0, 480}

Max(a, b) == IF a >= b THEN a ELSE b
Min(a, b) == IF a <= b THEN a ELSE b

----------------------------------------------------------------------------
(* example_organ_player.py *)

BASE_MIDI_FOR_VALVE_ZERO == 48

midi_note_to_valve_index(midi_note) == midi_note - BASE_MIDI_FOR_VALVE_ZERO

\* A float of the source given in seconds, as a numerator over `speed`.
Seconds(x) == x * speed

\* start_time = tone.start_time / speed
ScaledStart(tone) == tone.start_time

\* tick_seconds = duration / duration_ticks; (duration_ticks * tick_seconds) / speed,
\* or duration / speed when duration_ticks is 0
ScaledDuration(tone) ==
    IF tone.duration_ticks # 0
    THEN (tone.duration_ticks * tone.duration) \div tone.duration_ticks
    ELSE tone.duration

OriginalEnd(tone) == ScaledStart(tone) + ScaledDuration(tone)

\* the three `continue` tests of the loop body
StartsAfterWindow(tone) ==
    stop_time_limit # <<>> /\ ScaledStart(tone) >= Seconds(stop_time_limit[1])

EndsBeforeWindow(tone) == OriginalEnd(tone) <= Seconds(start_time_limit)

\* mutant: the start is not clipped to the window
ClippedStartUnclipped(tone) == ScaledStart(tone)

ClippedStart(tone) == Max(ScaledStart(tone), Seconds(start_time_limit))

\* mutant: the end is not clipped to the window
ClippedEndUnclipped(tone) == OriginalEnd(tone)

ClippedEnd(tone) ==
    IF stop_time_limit = <<>>
    THEN OriginalEnd(tone)
    ELSE Min(OriginalEnd(tone), Seconds(stop_time_limit[1]))

\* mutant: the test `clipped_end <= clipped_start` is left out
SurvivesUnclipped(tone) ==
    /\ ~StartsAfterWindow(tone)
    /\ ~EndsBeforeWindow(tone)

Survives(tone) ==
    /\ ~StartsAfterWindow(tone)
    /\ ~EndsBeforeWindow(tone)
    /\ ~(ClippedEnd(tone) <= ClippedStart(tone))

RelativeStart(tone) == ClippedStart(tone) - Seconds(start_time_limit)
RelativeEnd(tone) == ClippedEnd(tone) - Seconds(start_time_limit)

\* mutant: the Open time is not clamped at 0
StartCmdTimeUnclamped(tone) == RelativeStart(tone) - Seconds(turn_on_delay)

StartCmdTime(tone) == Max(0, RelativeStart(tone) - Seconds(turn_on_delay))
EndCmdTime(tone) == Max(0, RelativeEnd(tone) - Seconds(turn_off_delay))

OpenEvent(tone) ==
    [time |-> StartCmdTime(tone), is_open |-> TRUE,
     valve_index |-> midi_note_to_valve_index(tone.midi_note), tone |-> tone]

CloseEvent(tone) ==
    [time |-> EndCmdTime(tone), is_open |-> FALSE,
     valve_index |-> midi_note_to_valve_index(tone.midi_note), tone |-> tone]

\* the events one tone appends
ToneEvents(tone) ==
    IF Survives(tone) THEN <<OpenEvent(tone), CloseEvent(tone)>> ELSE <<>>

RECURSIVE GroupEvents(_)
GroupEvents(tone_group) ==
    IF tone_group = <<>> THEN <<>>
    ELSE ToneEvents(Head(tone_group)) \o GroupEvents(Tail(tone_group))

RECURSIVE TrackEvents(_)
TrackEvents(groups) ==
    IF groups = <<>> THEN <<>>
    ELSE GroupEvents(Head(groups)) \o TrackEvents(Tail(groups))

\* key=lambda e: (e[0], not e[1], e[2]); False sorts before True
NotIsOpen(e) == IF e.is_open THEN 0 ELSE 1

\* mutant: Close sorts before Open at equal times
KeyLessCloseFirst(a, b) ==
    \/ a.time < b.time
    \/ a.time = b.time /\ NotIsOpen(a) > NotIsOpen(b)
    \/ a.time = b.time /\ NotIsOpen(a) = NotIsOpen(b) /\ a.valve_index < b.valve_index

KeyLess(a, b) ==
    \/ a.time < b.time
    \/ a.time = b.time /\ NotIsOpen(a) < NotIsOpen(b)
    \/ a.time = b.time /\ NotIsOpen(a) = NotIsOpen(b) /\ a.valve_index < b.valve_index

\* list.sort is stable: an element goes behind every element whose key is not greater
RECURSIVE InsertEvent(_, _)
InsertEvent(sorted, e) ==
    IF sorted = <<>> THEN <<e>>
    ELSE IF KeyLess(e, Head(sorted)) THEN <<e>> \o sorted
    ELSE <<Head(sorted)>> \o InsertEvent(Tail(sorted), e)

RECURSIVE SortEvents(_)
SortEvents(evs) ==
    IF evs = <<>> THEN <<>>
    ELSE InsertEvent(SortEvents(SubSeq(evs, 1, Len(evs) - 1)), evs[Len(evs)])

build_valve_events(groups) == SortEvents(TrackEvents(groups))

----------------------------------------------------------------------------
(* Inputs: a track is a sequence of non-empty tone groups in (start_time,  *)
(* midi_note) order, one group per start time, as Track.__iter__ yields.   *)

ToneValues ==
    [midi_note : Pitches, start_time : StartTimes, duration : 0..MaxDur,
     ticks_per_unit : DurationTicksPerUnit]

ToneLess(a, b) ==
    \/ a.start_time < b.start_time
    \/ a.start_time = b.start_time /\ a.midi_note <= b.midi_note

SortedToneSeqs ==
    UNION {{f \in [1..n -> ToneValues] :
               \A i \in 1..n : \A j \in 1..n : i < j => ToneLess(f[i], f[j])} :
           n \in 0..MaxTones}

\* the tone object: its position in the track stands for its identity
MakeTone(v, i) ==
    [id |-> i, midi_note |-> v.midi_note, start_time |-> v.start_time,
     duration |-> v.duration, duration_ticks |-> v.duration * v.ticks_per_unit]

RECURSIVE MakeGroups(_, _)
MakeGroups(f, i) ==
    IF i > Len(f) THEN <<>>
    ELSE LET rest == MakeGroups(f, i + 1)
             t == MakeTone(f[i], i)
         IN IF rest # <<>> /\ Head(rest)[1].start_time = t.start_time
            THEN <<(<<t>> \o Head(rest))>> \o Tail(rest)
            ELSE <<(<<t>>)>> \o rest

Tracks == {MakeGroups(f, 1) : f \in SortedToneSeqs}

StopLimits == {<<>>} \cup {<<v>> : v \in StopTimes}

RECURSIVE Flatten(_)
Flatten(groups) ==
    IF groups = <<>> THEN <<>> ELSE Head(groups) \o Flatten(Tail(groups))

TrackTones == {Flatten(track)[i] : i \in 1..Len(Flatten(track))}

----------------------------------------------------------------------------
(* State machine *)

\* nothing is being played; a motor, if there is one, has _active_freq = None
PlayIdle ==
    /\ idx = 0
    /\ open_valves = {}
    /\ calls = <<>>
    /\ now = 0
    /\ pending = {}
    /\ active_freq = <<>>

\* Track.__init__: self._duration = None, self._note_count = None
NoInfo == [duration |-> <<>>, note_count |-> <<>>]

ParseIdle ==
    /\ midi_track = <<>>
    /\ tempo_map = <<>>
    /\ ticks_per_beat = 0
    /\ ppc = "idle"
    /\ msg_i = 0
    /\ current_tick = 0
    /\ active_notes = <<>>
    /\ note_events = <<>>
    /\ tone_groups = <<>>
    /\ track_info = NoInfo

\* the ticks calculate_absolute_time is called with
QueryTicks == 0..2

\* no call of calculate_absolute_time has returned
NoTimes == [t \in QueryTicks |-> <<>>]

\* no MIDI file is being loaded
MidiIdle ==
    /\ midi_file = <<>>
    /\ mpc = "idle"
    /\ abs_times = NoTimes

\* the valves of the organ that are driven
OrganValves == {0, 9}

\* no call on the organ has been made: of each valve neither an open nor a close
NoOpenClose == [c \in OrganValves |-> [phase |-> "none", created |-> FALSE, blocks |-> 0]]

\* the arguments and the environment of PipeOrgan.__init__: the use_audio argument,
\* whether sounddevice and numpy were imported, and how the stream comes up
NoOptions == [use_audio |-> FALSE, backend |-> FALSE, stream_init |-> "ok"]

\* no PipeOrgan exists
OrganIdle ==
    /\ use_audio = FALSE
    /\ ramp_samples = 1
    /\ voices = <<>>
    /\ lock = "free"
    /\ stream = "none"
    /\ spc = "idle"
    /\ valve_index = 0
    /\ found = <<>>
    /\ cpc = "idle"
    /\ frames = 0
    /\ options = NoOptions
    /\ sample_rate = 1
    /\ phase = 0
    /\ open_close = NoOpenClose
    /\ closed_all = 0

\* no event list is being built or played
BuildIdle ==
    /\ track = <<>>
    /\ turn_on_delay = 0
    /\ turn_off_delay = 0
    /\ speed = 1
    /\ start_time_limit = 0
    /\ stop_time_limit = <<>>
    /\ events = <<>>
    /\ pc = "idle"

InitBuild ==
    /\ ParseIdle
    /\ MidiIdle
    /\ OrganIdle
    /\ track \in Tracks
    /\ turn_on_delay \in Delays
    /\ turn_off_delay \in Delays
    /\ speed \in Speeds
    /\ start_time_limit \in StartTimes
    /\ stop_time_limit \in StopLimits
    /\ events = <<>>
    /\ pc = "build"
    /\ PlayIdle

\* build_valve_events(track, ...) returns the sorted event list
BuildValveEvents ==
    /\ pc = "build"
    /\ events' = build_valve_events(track)
    /\ pc' = "built"
    /\ UNCHANGED <<organVars, midiVars, parseVars, buildArgs, motorVars, idx, open_valves, calls, now, pending>>

\* play_events: open_valves = set(); start = time.monotonic()
PlayStart ==
    /\ pc = "built"
    /\ pc' = "loop"
    /\ idx' = 1
    /\ open_valves' = {}
    /\ now' = 0
    /\ UNCHANGED <<organVars, midiVars, parseVars, buildArgs, motorVars, events, calls, pending>>

\* elapsed = time.monotonic() - start; sleep_time = event_time - elapsed
SleepTime(e, elapsed) == e.time - elapsed

\* mutant: the loop never sleeps
WakeTimeNoSleep(e, elapsed, lag) == elapsed + lag

\* time.sleep(sleep_time) when sleep_time > 0 returns no earlier than asked; `lag`
\* is the oversleep, or the time the iteration takes when it does not sleep
WakeTime(e, elapsed, lag) ==
    IF SleepTime(e, elapsed) > 0 THEN elapsed + SleepTime(e, elapsed) + lag
    ELSE elapsed + lag

\* mutant: no event is suppressed
SinkCallUnsuppressed(e, opened, at) ==
    IF e.is_open
    THEN <<[op |-> "valve_open", valve |-> e.valve_index, at |-> at]>>
    ELSE <<[op |-> "valve_close", valve |-> e.valve_index, at |-> at]>>

\* the sink call one event issues, given the recorded open valves
SinkCall(e, opened, at) ==
    IF e.is_open
    THEN IF e.valve_index \notin opened
         THEN <<[op |-> "valve_open", valve |-> e.valve_index, at |-> at]>>
         ELSE <<>>
    ELSE IF e.valve_index \in opened
         THEN <<[op |-> "valve_close", valve |-> e.valve_index, at |-> at]>>
         ELSE <<>>

\* mutant: a closed valve stays in the record
RecordValveAddsOnly(e, opened) ==
    IF e.is_open /\ e.valve_index \notin opened THEN opened \cup {e.valve_index}
    ELSE opened

\* open_valves.add / open_valves.discard
RecordValve(e, opened) ==
    IF e.is_open
    THEN IF e.valve_index \notin opened THEN opened \cup {e.valve_index} ELSE opened
    ELSE IF e.valve_index \in opened THEN opened \ {e.valve_index} ELSE opened

\* one iteration of `for event_time, is_open, valve_index, tone, track_name in events`
PlayEvent ==
    /\ pc = "loop"
    /\ idx <= Len(events)
    /\ \E lag \in Lags :
          LET e == events[idx]
              at == WakeTime(e, now, lag)
          IN /\ now' = at
             /\ calls' = calls \o SinkCall(e, open_valves, at)
             /\ open_valves' = RecordValve(e, open_valves)
    /\ idx' = idx + 1
    /\ UNCHANGED <<organVars, midiVars, parseVars, buildArgs, motorVars, events, pc, pending>>

\* mutant: the final loop closes nothing
LeftOpenNone(opened) == {}

\* list(open_valves): the valves the final loop will close
LeftOpen(opened) == opened

\* the event loop is exhausted
PlayLoopEnd ==
    /\ pc = "loop"
    /\ idx > Len(events)
    /\ pc' = "flush"
    /\ pending' = LeftOpen(open_valves)
    /\ UNCHANGED <<organVars, midiVars, parseVars, buildArgs, motorVars, events, idx, open_valves, calls, now>>

\* one iteration of `for valve_index in list(open_valves): organ.valve_close(valve_index)`
PlayForceClose ==
    /\ pc = "flush"
    /\ \E v \in pending :
          /\ calls' = Append(calls, [op |-> "valve_close", valve |-> v, at |-> now])
          /\ pending' = pending \ {v}
    /\ UNCHANGED <<organVars, midiVars, parseVars, buildArgs, motorVars, events, pc, idx, open_valves, now>>

\* play_events returns
PlayReturn ==
    /\ pc = "flush"
    /\ pending = {}
    /\ pc' = "done"
    /\ UNCHANGED <<organVars, midiVars, parseVars, buildArgs, motorVars, events, idx, open_valves, calls, now, pending>>

NextBuild == BuildValveEvents

\* build_valve_events alone
SpecBuild == InitBuild /\ [][NextBuild]_vars

\* main(): build_valve_events, then play_events on its result
Next == BuildValveEvents \/ PlayStart \/ PlayEvent \/ PlayLoopEnd \/ PlayForceClose
        \/ PlayReturn

Spec == InitBuild /\ [][Next]_vars

\* play_events on any event list
Valves == {midi_note_to_valve_index(p) : p \in Pitches}

AnyTone(v) ==
    [id |-> 0, midi_note |-> v + BASE_MIDI_FOR_VALVE_ZERO, start_time |-> 0,
     duration |-> 0, duration_ticks |-> 0]

AnyEvents ==
    UNION {[1..n -> {[time |-> t, is_open |-> o, valve_index |-> v, tone |-> AnyTone(v)] :
                        t \in StopTimes, o \in BOOLEAN, v \in Valves}] :
           n \in 0..MaxEvents}

InitPlay ==
    /\ ParseIdle
    /\ MidiIdle
    /\ OrganIdle
    /\ track = <<>>
    /\ turn_on_delay = 0
    /\ turn_off_delay = 0
    /\ speed = 1
    /\ start_time_limit = 0
    /\ stop_time_limit = <<>>
    /\ events \in AnyEvents
    /\ pc = "built"
    /\ PlayIdle

NextPlay == PlayStart \/ PlayEvent \/ PlayLoopEnd \/ PlayForceClose \/ PlayReturn

SpecPlay == InitPlay /\ [][NextPlay]_vars

\* the interpreter keeps running the loop: every enabled step is eventually taken
SpecPlayFair == SpecPlay /\ WF_vars(NextPlay)

----------------------------------------------------------------------------
(* miditones/utils.py and miditones/parser.py *)

\* mutant: the tempo is taken to be the default one
ticks_to_secondsDefaultTempo(ticks, tempo_us) == ticks * 500000

\* (ticks * tempo_us) / (ticks_per_beat * 1_000_000): the numerator; every time of
\* one run has the denominator ticks_per_beat * 1000000
ticks_to_seconds(ticks, tempo_us) == ticks * tempo_us

\* a float given in microseconds, as a numerator over ticks_per_beat * 1000000
Micros(us) == us * ticks_per_beat

\* the loop of calculate_absolute_time: <<time_seconds, last_tempo_tick, current_tempo>>
RECURSIVE TempoWalk(_, _, _, _, _)
TempoWalk(tick, entries, time_seconds, last_tempo_tick, current_tempo) ==
    IF entries = <<>> \/ Head(entries)[1] > tick
    THEN <<time_seconds, last_tempo_tick, current_tempo>>
    ELSE LET tempo_tick == Head(entries)[1]
             tempo == Head(entries)[2]
             added == IF tempo_tick > last_tempo_tick
                      THEN ticks_to_seconds(tempo_tick - last_tempo_tick, current_tempo)
                      ELSE 0
         IN TempoWalk(tick, Tail(entries), time_seconds + added, tempo_tick, tempo)

\* mutant: the time before the last tempo change is dropped
calculate_absolute_timeRestart(tick) ==
    LET w == TempoWalk(tick, tempo_map, 0, 0, tempo_map[1][2])
    IN IF tick > w[2] THEN ticks_to_seconds(tick - w[2], w[3]) ELSE w[1]

calculate_absolute_time(tick) ==
    LET w == TempoWalk(tick, tempo_map, 0, 0, tempo_map[1][2])
    IN IF tick > w[2] THEN w[1] + ticks_to_seconds(tick - w[2], w[3]) ELSE w[1]

\* msg.type == 'note_on' and msg.velocity > 0
IsNoteStart(msg) == msg.type = "note_on" /\ msg.velocity > 0

\* msg.type == 'note_off' or (msg.type == 'note_on' and msg.velocity == 0)
IsNoteEnd(msg) ==
    msg.type = "note_off" \/ (msg.type = "note_on" /\ msg.velocity = 0)

\* active_notes is a dict: its entries in insertion order
HasKey(active, note, channel) ==
    \E k \in 1..Len(active) : active[k].note = note /\ active[k].channel = channel

KeyPos(active, note, channel) ==
    CHOOSE k \in 1..Len(active) : active[k].note = note /\ active[k].channel = channel

\* active_notes[key] = (current_tick, msg.velocity)
PutNote(active, msg, tick) ==
    LET entry == [note |-> msg.note, channel |-> msg.channel, start_tick |-> tick,
                  velocity |-> msg.velocity]
    IN IF HasKey(active, msg.note, msg.channel)
       THEN [active EXCEPT ![KeyPos(active, msg.note, msg.channel)] = entry]
       ELSE Append(active, entry)

\* del active_notes[key]
DelNote(active, note, channel) ==
    LET k == KeyPos(active, note, channel)
    IN SubSeq(active, 1, k - 1) \o SubSeq(active, k + 1, Len(active))

\* mutant: the closed interval gets the floor of the flushed one
ClosedIntervalFloored(entry, tick) ==
    [midi_note |-> entry.note,
     start_time |-> calculate_absolute_time(entry.start_tick),
     duration |-> Max(calculate_absolute_time(tick)
                         - calculate_absolute_time(entry.start_tick), Micros(100000)),
     velocity |-> entry.velocity,
     start_tick |-> entry.start_tick]

\* the dict appended when a note ends at `tick`
ClosedInterval(entry, tick) ==
    [midi_note |-> entry.note,
     start_time |-> calculate_absolute_time(entry.start_tick),
     duration |-> calculate_absolute_time(tick) - calculate_absolute_time(entry.start_tick),
     velocity |-> entry.velocity,
     start_tick |-> entry.start_tick]

\* mutant: the flushed interval starts at the final tick
FlushedIntervalAtEnd(entry, tick) ==
    [midi_note |-> entry.note,
     start_time |-> calculate_absolute_time(tick),
     duration |-> Micros(100000),
     velocity |-> entry.velocity,
     start_tick |-> tick]

\* the dict appended for a note without note_off: 'duration': max(duration, 0.1)
FlushedInterval(entry, tick) ==
    [midi_note |-> entry.note,
     start_time |-> calculate_absolute_time(entry.start_tick),
     duration |-> Max(calculate_absolute_time(tick)
                         - calculate_absolute_time(entry.start_tick), Micros(100000)),
     velocity |-> entry.velocity,
     start_tick |-> entry.start_tick]

\* active_notes after one message
ActiveAfter(active, msg, tick) ==
    IF IsNoteStart(msg) THEN PutNote(active, msg, tick)
    ELSE IF IsNoteEnd(msg) /\ HasKey(active, msg.note, msg.channel)
    THEN DelNote(active, msg.note, msg.channel)
    ELSE active

\* mutant: a note end without an open entry emits a zero-length interval
EmittedLenient(active, msg, tick) ==
    IF IsNoteStart(msg) THEN <<>>
    ELSE IF IsNoteEnd(msg)
    THEN IF HasKey(active, msg.note, msg.channel)
         THEN <<ClosedInterval(active[KeyPos(active, msg.note, msg.channel)], tick)>>
         ELSE <<ClosedInterval([note |-> msg.note, channel |-> msg.channel,
                                start_tick |-> tick, velocity |-> 0], tick)>>
    ELSE <<>>

\* what one message appends to note_events
Emitted(active, msg, tick) ==
    IF IsNoteStart(msg) THEN <<>>
    ELSE IF IsNoteEnd(msg) /\ HasKey(active, msg.note, msg.channel)
    THEN <<ClosedInterval(active[KeyPos(active, msg.note, msg.channel)], tick)>>
    ELSE <<>>

\* for (note, channel), (start_tick, velocity) in active_notes.items()
RECURSIVE FlushAll(_, _)
FlushAll(active, tick) ==
    IF active = <<>> THEN <<>>
    ELSE <<FlushedInterval(Head(active), tick)>> \o FlushAll(Tail(active), tick)

\* key=lambda x: (x['start_time'], x['midi_note'])
NoteLess(a, b) ==
    \/ a.start_time < b.start_time
    \/ a.start_time = b.start_time /\ a.midi_note < b.midi_note

RECURSIVE InsertNote(_, _)
InsertNote(sorted, e) ==
    IF sorted = <<>> THEN <<e>>
    ELSE IF NoteLess(e, Head(sorted)) THEN <<e>> \o sorted
    ELSE <<Head(sorted)>> \o InsertNote(Tail(sorted), e)

RECURSIVE SortNotes(_)
SortNotes(evs) ==
    IF evs = <<>> THEN <<>>
    ELSE InsertNote(SortNotes(SubSeq(evs, 1, Len(evs) - 1)), evs[Len(evs)])

\* one iteration of `for msg in midi_track`
ProcessMsg ==
    /\ ppc = "scan"
    /\ msg_i <= Len(midi_track)
    /\ LET msg == midi_track[msg_i]
           tick == current_tick + msg.time
       IN /\ current_tick' = tick
          /\ active_notes' = ActiveAfter(active_notes, msg, tick)
          /\ note_events' = note_events \o Emitted(active_notes, msg, tick)
    /\ msg_i' = msg_i + 1
    /\ UNCHANGED <<organVars, midiVars, parseArgs, ppc, tone_groups, track_info, buildArgs, motorVars, playVars>>

\* after the message loop: flush the notes without note_off, then note_events.sort
FlushAndSort ==
    /\ ppc = "scan"
    /\ msg_i > Len(midi_track)
    /\ note_events' = SortNotes(note_events \o FlushAll(active_notes, current_tick))
    /\ ppc' = "sorted"
    /\ UNCHANGED <<organVars, midiVars, parseArgs, msg_i, current_tick, active_notes, tone_groups,
                   track_info, buildArgs, motorVars,
                   playVars>>

\* Tone(midi_note=..., duration=..., velocity=..., start_time=...)
GroupTone(event) ==
    [midi_note |-> event.midi_note, duration |-> event.duration,
     velocity |-> event.velocity, start_time |-> event.start_time]

Abs(x) == IF x >= 0 THEN x ELSE 0 - x

\* mutant: the comparison is inverted
WithinToleranceInverted(event, current_start_time) ==
    Abs(event.start_time - current_start_time) > Micros(1000)

\* abs(event['start_time'] - current_start_time) < tolerance, tolerance = 0.001
WithinTolerance(event, current_start_time) ==
    Abs(event.start_time - current_start_time) < Micros(1000)

\* current_group.sort(key=lambda t: t.midi_note), a stable sort
RECURSIVE InsertByPitch(_, _)
InsertByPitch(sorted, t) ==
    IF sorted = <<>> THEN <<t>>
    ELSE IF t.midi_note < Head(sorted).midi_note THEN <<t>> \o sorted
    ELSE <<Head(sorted)>> \o InsertByPitch(Tail(sorted), t)

RECURSIVE SortByPitch(_)
SortByPitch(group) ==
    IF group = <<>> THEN <<>>
    ELSE InsertByPitch(SortByPitch(SubSeq(group, 1, Len(group) - 1)), group[Len(group)])

\* mutant: the anchor moves to the last member of the group
JoinsGroupChained(event, current_group, current_start_time) ==
    \/ current_start_time = <<>>
    \/ WithinTolerance(event, current_group[Len(current_group)].start_time)

\* `current_start_time is None or abs(...) < tolerance`; None is <<>>
JoinsGroup(event, current_group, current_start_time) ==
    \/ current_start_time = <<>>
    \/ WithinTolerance(event, current_start_time[1])

\* the loop `for event in note_events` and the final yield: the groups yielded
RECURSIVE GroupLoop(_, _, _, _)
GroupLoop(evs, current_group, current_start_time, yielded) ==
    IF evs = <<>>
    THEN IF current_group # <<>>
         THEN Append(yielded, SortByPitch(current_group))
         ELSE yielded
    ELSE LET event == Head(evs)
         IN IF JoinsGroup(event, current_group, current_start_time)
            THEN GroupLoop(Tail(evs), Append(current_group, GroupTone(event)),
                           IF current_start_time = <<>>
                           THEN <<event.start_time>> ELSE current_start_time,
                           yielded)
            ELSE GroupLoop(Tail(evs), <<GroupTone(event)>>, <<event.start_time>>,
                           IF current_group # <<>>
                           THEN Append(yielded, SortByPitch(current_group))
                           ELSE yielded)

\* mutant: the first interval is not grouped
GroupNotesSkipsFirst(evs) ==
    IF evs = <<>> THEN <<>> ELSE GroupLoop(Tail(evs), <<>>, <<>>, <<>>)

\* `if not note_events: return`, then the grouping loop
GroupNotes(evs) == IF evs = <<>> THEN <<>> ELSE GroupLoop(evs, <<>>, <<>>, <<>>)

\* the generator is run to its end: every tone group it yields
YieldGroups ==
    /\ ppc = "sorted"
    /\ tone_groups' = GroupNotes(note_events)
    /\ ppc' = "done"
    /\ UNCHANGED <<organVars, midiVars, parseArgs, msg_i, current_tick, active_notes,
                   note_events, track_info, buildArgs, motorVars, playVars>>

\* the loop over one tone group: <<max_end_time, note_count>>
RECURSIVE InfoOfTones(_, _)
InfoOfTones(tone_group, info) ==
    IF tone_group = <<>> THEN info
    ELSE LET tone == Head(tone_group)
             end_time == tone.start_time + tone.duration
         IN InfoOfTones(Tail(tone_group),
                        <<IF end_time > info[1] THEN end_time ELSE info[1], info[2] + 1>>)

\* `for tone_group in self`
RECURSIVE InfoOfGroups(_, _)
InfoOfGroups(groups, info) ==
    IF groups = <<>> THEN info
    ELSE InfoOfGroups(Tail(groups), InfoOfTones(Head(groups), info))

\* Track._calculate_track_info: max_end_time = 0.0, note_count = 0, the two loops,
\* then self._duration and self._note_count
calculate_track_info(groups) ==
    LET info == InfoOfGroups(groups, <<0, 0>>)
    IN [duration |-> <<info[1]>>, note_count |-> <<info[2]>>]

\* len(track) or track.duration with nothing cached: the track is iterated again,
\* which yields the same groups, and both values are kept
CalculateTrackInfo ==
    /\ ppc = "done"
    /\ track_info' = calculate_track_info(GroupNotes(note_events))
    /\ ppc' = "info"
    /\ UNCHANGED <<organVars, midiVars, parseArgs, msg_i, current_tick, active_notes,
                   note_events, tone_groups, buildArgs, motorVars, playVars>>

\* the (pitch, channel) keys of the note messages
NoteKeys == {<<60, 0>>, <<60, 1>>, <<64, 0>>}

Messages ==
    {[type |-> "note_on", time |-> d, note |-> k[1], channel |-> k[2], velocity |-> v] :
        d \in Deltas, k \in NoteKeys, v \in Velocities}
    \cup {[type |-> "note_off", time |-> d, note |-> k[1], channel |-> k[2],
           velocity |-> 0] : d \in Deltas, k \in NoteKeys}
    \cup {[type |-> "control_change", time |-> d, note |-> 0, channel |-> 0,
           velocity |-> 0] : d \in Deltas}

MsgSeqs == UNION {[1..n -> Messages] : n \in 0..MaxMsgs}

TicksPerBeats == {5, 800}

\* the <<tempo_map, ticks_per_beat>> a track is read with, the map as
\* build_tempo_map returns it: ticks of 0.1 s, ticks of 0.1 s and then 0.05 s, ticks
\* of 0.625 ms
ParseTimings ==
    {<<(<<(<<0, 500000>>)>>), 5>>, <<(<<(<<0, 500000>>), (<<1, 250000>>)>>), 5>>,
     <<(<<(<<0, 500000>>)>>), 800>>}

InitParse ==
    /\ midi_track \in MsgSeqs
    /\ \E timing \in ParseTimings :
          tempo_map = timing[1] /\ ticks_per_beat = timing[2]
    /\ ppc = "scan"
    /\ msg_i = 1
    /\ current_tick = 0
    /\ active_notes = <<>>
    /\ note_events = <<>>
    /\ tone_groups = <<>>
    /\ track_info = NoInfo
    /\ track = <<>>
    /\ turn_on_delay = 0
    /\ turn_off_delay = 0
    /\ speed = 1
    /\ start_time_limit = 0
    /\ stop_time_limit = <<>>
    /\ events = <<>>
    /\ pc = "idle"
    /\ MidiIdle
    /\ OrganIdle
    /\ PlayIdle

NextParse == ProcessMsg \/ FlushAndSort \/ YieldGroups \/ CalculateTrackInfo

\* process_track_events on any message stream
SpecParse == InitParse /\ [][NextParse]_vars

----------------------------------------------------------------------------
(* miditones/midi.py, miditones/parser.py: Midi.__init__ builds the tempo   *)
(* map of a file with build_tempo_map; calculate_absolute_time is then      *)
(* called with that map.                                                    *)

\* the longest track of a file
MaxTrackMsgs == 2

\* the numbers of tracks of a file
TrackCounts == {0, 1, 2}

\* msg.tempo of a set_tempo message, microseconds per beat
Tempos == {250000, 500000}

\* the messages of a file: set_tempo messages and messages of another type
TempoMessages ==
    [type : {"set_tempo"}, time : Deltas, tempo : Tempos]
        \cup [type : {"note_on"}, time : Deltas, tempo : {0}]

TempoTracks == UNION {[1..n -> TempoMessages] : n \in 0..MaxTrackMsgs}

MidiFiles == UNION {[1..n -> TempoTracks] : n \in TrackCounts}

default_tempo == 500000

\* `for msg in track`: current_tick += msg.time, a set_tempo appends its entry
RECURSIVE ScanTrack(_, _, _)
ScanTrack(msgs, tick, tm) ==
    IF msgs = <<>> THEN tm
    ELSE LET msg == Head(msgs)
             t == tick + msg.time
         IN ScanTrack(Tail(msgs), t,
                      IF msg.type = "set_tempo"
                      THEN Append(tm, <<t, msg.tempo>>) ELSE tm)

\* `for track in midi_file.tracks`: current_tick = 0 at the start of each track
RECURSIVE ScanTracks(_, _)
ScanTracks(tracks, tm) ==
    IF tracks = <<>> THEN tm
    ELSE ScanTracks(Tail(tracks), ScanTrack(Head(tracks), 0, tm))

\* tempo_map.sort(key=lambda x: x[0]), a stable sort
RECURSIVE InsertTempo(_, _)
InsertTempo(sorted, e) ==
    IF sorted = <<>> THEN <<e>>
    ELSE IF e[1] < Head(sorted)[1] THEN <<e>> \o sorted
    ELSE <<Head(sorted)>> \o InsertTempo(Tail(sorted), e)

RECURSIVE SortTempos(_)
SortTempos(tm) ==
    IF tm = <<>> THEN <<>>
    ELSE InsertTempo(SortTempos(SubSeq(tm, 1, Len(tm) - 1)), tm[Len(tm)])

\* mutant: every entry is taken as a new tick
IsNewTickAlways(tick, last_tick) == TRUE

\* tick != last_tick
IsNewTick(tick, last_tick) == tick # last_tick

\* mutant: the first tempo seen at a tick is kept
ReplaceLastKeepsFirst(unique, entry) == unique

\* unique_tempo_map[-1] = (tick, tempo)
ReplaceLast(unique, entry) == [unique EXCEPT ![Len(unique)] = entry]

\* the de-duplication loop
RECURSIVE UniqueTempos(_, _, _)
UniqueTempos(entries, unique_tempo_map, last_tick) ==
    IF entries = <<>> THEN unique_tempo_map
    ELSE LET e == Head(entries)
         IN IF IsNewTick(e[1], last_tick)
            THEN UniqueTempos(Tail(entries), Append(unique_tempo_map, e), e[1])
            ELSE UniqueTempos(Tail(entries), ReplaceLast(unique_tempo_map, e),
                              last_tick)

build_tempo_map(file) ==
    UniqueTempos(SortTempos(ScanTracks(file, <<(<<0, default_tempo>>)>>)), <<>>, -1)

\* Midi.__init__: self._tempo_map = build_tempo_map(self._midi_file)
BuildTempoMap ==
    /\ mpc = "file"
    /\ tempo_map' = build_tempo_map(midi_file)
    /\ mpc' = "map"
    /\ UNCHANGED <<organVars, midi_file, abs_times, midi_track, ticks_per_beat, ppc, msg_i,
                   current_tick, active_notes, note_events, tone_groups,
                   track_info, buildArgs, motorVars,
                   playVars>>

\* calculate_absolute_time reaches a call of ticks_to_seconds: in the loop once an
\* entry lies after tick 0 and at or before the tick, or after the loop
CallsTicksToSeconds(tick) ==
    LET w == TempoWalk(tick, tempo_map, 0, 0, tempo_map[1][2])
    IN w[2] > 0 \/ tick > w[2]

\* the division by ticks_per_beat * 1_000_000 raises ZeroDivisionError
DividesByZero(tick) == ticks_per_beat = 0 /\ CallsTicksToSeconds(tick)

\* calculate_absolute_time(tick, tempo_map, ticks_per_beat) returns or raises; the
\* outcome is kept with its tick
CalcAbsoluteTime ==
    /\ mpc = "map"
    /\ \E tick \in QueryTicks :
          /\ abs_times[tick] = <<>>
          /\ abs_times' = [abs_times EXCEPT ![tick] =
                              IF DividesByZero(tick) THEN <<"ZeroDivisionError">>
                              ELSE <<calculate_absolute_time(tick)>>]
    /\ UNCHANGED <<organVars, midi_file, mpc, parseVars, buildArgs, motorVars, playVars>>

InitTempo ==
    /\ midi_file \in MidiFiles
    /\ mpc = "file"
    /\ abs_times = NoTimes
    /\ midi_track = <<>>
    /\ tempo_map = <<>>
    /\ ticks_per_beat \in TicksPerBeats
    /\ ppc = "idle"
    /\ msg_i = 0
    /\ current_tick = 0
    /\ active_notes = <<>>
    /\ note_events = <<>>
    /\ tone_groups = <<>>
    /\ track_info = NoInfo
    /\ BuildIdle
    /\ PlayIdle
    /\ OrganIdle

NextTempo == BuildTempoMap \/ CalcAbsoluteTime

\* build_tempo_map on any file, then calculate_absolute_time on any ticks
SpecTempo == InitTempo /\ [][NextTempo]_vars

\* the division field of a file header as mido.MidiFile hands it on: a signed
\* 16-bit value, zero and negative values included
HeaderTicksPerBeats == {-5, 0, 5}

\* Midi.__init__ after parse_midi_file: the header's ticks_per_beat is taken as it is
InitLoad ==
    /\ midi_file \in MidiFiles
    /\ mpc = "file"
    /\ abs_times = NoTimes
    /\ midi_track = <<>>
    /\ tempo_map = <<>>
    /\ ticks_per_beat \in HeaderTicksPerBeats
    /\ ppc = "idle"
    /\ msg_i = 0
    /\ current_tick = 0
    /\ active_notes = <<>>
    /\ note_events = <<>>
    /\ tone_groups = <<>>
    /\ track_info = NoInfo
    /\ BuildIdle
    /\ PlayIdle
    /\ OrganIdle

\* Midi(filename) on any file, then the conversions a Track of it performs
SpecLoad == InitLoad /\ [][NextTempo]_vars

----------------------------------------------------------------------------
(* pipe_organ_interface.py: PipeOrgan with two threads, the caller of       *)
(* valve_open, valve_close and close_all, and the audio callback the stream *)
(* invokes.  A gain g is the numerator of g / ramp_samples; a target is 0   *)
(* or 1.                                                                    *)

\* self._ramp_samples = max(1, int(max(0.0, ramp_duration) * self._sample_rate))
RampSamples == {1, 40000}

\* the frame counts the stream calls the callback with (blocksize=0)
Frames == {13333, 39999}

\* 440.0 * (2.0 ** ((midi_note - 69) / 12.0)): the base and the exponent in twelfths
midi_to_frequency(midi_note) == [a4 |-> 440, twelfths |-> midi_note - 69]

\* {"freq": freq, "gain": 0.0, "target": 1.0}
NewVoice(valve) ==
    [freq |-> midi_to_frequency(BASE_MIDI_FOR_VALVE_ZERO + valve), gain |-> 0,
     target |-> 1]

\* self._voices.get(valve_index): None is <<>>
GetVoice(table, valve) == IF valve \in DOMAIN table THEN <<table[valve]>> ELSE <<>>

\* mutant: an existing voice starts again from gain 0
OpenedRestarts(table, valve) ==
    IF valve \in DOMAIN table
    THEN [table EXCEPT ![valve].target = 1, ![valve].gain = 0]
    ELSE [c \in DOMAIN table \cup {valve} |->
             IF c = valve THEN NewVoice(valve) ELSE table[c]]

\* valve_open under the lock: voice["target"] = 1.0, or a new voice
Opened(table, valve) ==
    IF valve \in DOMAIN table
    THEN [table EXCEPT ![valve].target = 1]
    ELSE [c \in DOMAIN table \cup {valve} |->
             IF c = valve THEN NewVoice(valve) ELSE table[c]]

\* valve_close under the lock: voice["target"] = 0.0 if there is a voice
Closed(table, valve) ==
    IF valve \in DOMAIN table THEN [table EXCEPT ![valve].target = 0] ELSE table

\* close_all under the lock: every voice["target"] = 0.0
AllClosed(table) == [c \in DOMAIN table |-> [table[c] EXCEPT !.target = 0]]

\* mutant: close_all leaves the table as it is after the sleep
ClearedKeeps(table) == table

\* self._voices.clear()
Cleared(table) == <<>>

\* mutant: the gain jumps to its target
EndGainJump(voice, n) == voice.target * ramp_samples

\* end_gain = gain + max(-max_delta, min(max_delta, target - gain)), with
\* max_delta = ramp_step * frames = n / ramp_samples
EndGain(voice, n) ==
    voice.gain + Max(0 - n, Min(n, voice.target * ramp_samples - voice.gain))

\* mutant: the test is on a voice that is opening
ShouldRemoveOpening(target, end_gain) == target = 1 /\ end_gain * 10000 <= ramp_samples

\* target == 0.0 and end_gain <= 1e-4
ShouldRemove(target, end_gain) == target = 0 /\ end_gain * 10000 <= ramp_samples

\* mutant: no voice is popped
MixBlockKeepsAll(table, n) ==
    [c \in DOMAIN table |-> [table[c] EXCEPT !.gain = EndGain(table[c], n)]]

\* one block under the lock: every gain advanced, then the voices to remove popped
MixBlock(table, n) ==
    LET ramped == [c \in DOMAIN table |-> [table[c] EXCEPT !.gain = EndGain(table[c], n)]]
        kept == {c \in DOMAIN table : ~ShouldRemove(ramped[c].target, ramped[c].gain)}
    IN [c \in kept |-> ramped[c]]

\* self._phase = (self._phase + frames) % self._sample_rate
NextPhase(p, n) == (p + n) % sample_rate

\* the history of a valve after valve_open: opened, with no block mixed since
NoteOpen(h, valve, was_new) ==
    [h EXCEPT ![valve] = [phase |-> "opened", created |-> was_new, blocks |-> 0]]

\* the history of a valve after valve_close: closed right after the open, or not
NoteClose(h, valve) ==
    [h EXCEPT ![valve] = IF h[valve].phase = "opened"
                         THEN [h[valve] EXCEPT !.phase = "closed"]
                         ELSE NoOpenClose[valve]]

\* the history after a block of n frames: frames mixed since the close, up to
\* ramp_samples; an open with a block after it is no longer followed at once
NoteBlock(h, n) ==
    [c \in OrganValves |->
        IF h[c].phase = "closed"
        THEN [h[c] EXCEPT !.blocks = Min(h[c].blocks + n, ramp_samples)]
        ELSE NoOpenClose[c]]

callerVars == <<spc, valve_index, found>>

callbackVars == <<cpc, frames, phase>>

organConfig == <<use_audio, ramp_samples, options, sample_rate>>

otherVars == <<midiVars, parseVars, buildArgs, motorVars, playVars>>

\* valve_open(valve_index): without audio it returns at once
CallValveOpen ==
    /\ spc = "ready"
    /\ \E v \in OrganValves : valve_index' = v
    /\ spc' = IF use_audio THEN "open_acquire" ELSE "ready"
    /\ UNCHANGED <<organConfig, voices, lock, stream, found, callbackVars, open_close,
                   closed_all, otherVars>>

\* with self._lock: voice = self._voices.get(valve_index)
OpenAcquire ==
    /\ spc = "open_acquire"
    /\ lock = "free"
    /\ lock' = "caller"
    /\ found' = GetVoice(voices, valve_index)
    /\ spc' = "open_body"
    /\ UNCHANGED <<organConfig, voices, stream, valve_index, callbackVars, open_close,
                   closed_all, otherVars>>

OpenBody ==
    /\ spc = "open_body"
    /\ voices' = Opened(voices, valve_index)
    /\ open_close' = NoteOpen(open_close, valve_index, found = <<>>)
    /\ spc' = "open_release"
    /\ UNCHANGED <<organConfig, lock, stream, valve_index, found, callbackVars,
                   closed_all, otherVars>>

\* valve_close(valve_index): without audio it returns at once
CallValveClose ==
    /\ spc = "ready"
    /\ \E v \in OrganValves : valve_index' = v
    /\ spc' = IF use_audio THEN "close_acquire" ELSE "ready"
    /\ UNCHANGED <<organConfig, voices, lock, stream, found, callbackVars, open_close,
                   closed_all, otherVars>>

CloseAcquire ==
    /\ spc = "close_acquire"
    /\ lock = "free"
    /\ lock' = "caller"
    /\ found' = GetVoice(voices, valve_index)
    /\ spc' = "close_body"
    /\ UNCHANGED <<organConfig, voices, stream, valve_index, callbackVars, open_close,
                   closed_all, otherVars>>

CloseBody ==
    /\ spc = "close_body"
    /\ voices' = Closed(voices, valve_index)
    /\ open_close' = NoteClose(open_close, valve_index)
    /\ spc' = "close_release"
    /\ UNCHANGED <<organConfig, lock, stream, valve_index, found, callbackVars,
                   closed_all, otherVars>>

\* the end of the with block of valve_open or valve_close, and the return
ReleaseReturn ==
    /\ spc \in {"open_release", "close_release"}
    /\ lock' = "free"
    /\ found' = <<>>
    /\ spc' = "ready"
    /\ UNCHANGED <<organConfig, voices, stream, valve_index, callbackVars, open_close,
                   closed_all, otherVars>>

\* close_all(): without audio it goes on to the stream
CallCloseAll ==
    /\ spc = "ready"
    /\ spc' = IF use_audio THEN "all_acquire" ELSE "all_stream"
    /\ UNCHANGED <<organConfig, voices, lock, stream, valve_index, found, callbackVars,
                   open_close, closed_all, otherVars>>

\* the first `with self._lock` of close_all
AllAcquire ==
    /\ spc = "all_acquire"
    /\ lock = "free"
    /\ lock' = "caller"
    /\ spc' = "all_targets"
    /\ UNCHANGED <<organConfig, voices, stream, valve_index, found, callbackVars,
                   open_close, closed_all, otherVars>>

\* mutant: the lock is kept over the sleep
AllTargetsKeepsLock ==
    /\ spc = "all_targets"
    /\ voices' = AllClosed(voices)
    /\ spc' = "all_sleep"
    /\ UNCHANGED <<organConfig, lock, stream, valve_index, found, callbackVars,
                   open_close, closed_all, otherVars>>

\* every target set to 0.0, the lock released
AllTargets ==
    /\ spc = "all_targets"
    /\ voices' = AllClosed(voices)
    /\ lock' = "free"
    /\ spc' = "all_sleep"
    /\ UNCHANGED <<organConfig, stream, valve_index, found, callbackVars, open_close,
                   closed_all, otherVars>>

\* time.sleep(self._ramp_samples / float(self._sample_rate)) returns
AllSleep ==
    /\ spc = "all_sleep"
    /\ spc' = "all_reacquire"
    /\ UNCHANGED <<organConfig, voices, lock, stream, valve_index, found, callbackVars,
                   open_close, closed_all, otherVars>>

\* the second `with self._lock` of close_all
AllReacquire ==
    /\ spc = "all_reacquire"
    /\ lock = "free"
    /\ lock' = "caller"
    /\ spc' = "all_clear"
    /\ UNCHANGED <<organConfig, voices, stream, valve_index, found, callbackVars,
                   open_close, closed_all, otherVars>>

\* self._voices.clear(), the lock released
AllClear ==
    /\ spc = "all_clear"
    /\ voices' = Cleared(voices)
    /\ lock' = "free"
    /\ open_close' = NoOpenClose
    /\ spc' = "all_stream"
    /\ UNCHANGED <<organConfig, stream, valve_index, found, callbackVars, closed_all,
                   otherVars>>

\* the stream, if there is one, stopped and closed, self._stream = None; the return
AllStream ==
    /\ spc = "all_stream"
    /\ stream' = "none"
    /\ closed_all' = Min(closed_all + 1, 2)
    /\ spc' = "ready"
    /\ UNCHANGED <<organConfig, voices, lock, valve_index, found, callbackVars,
                   open_close, otherVars>>

\* the started stream calls _sd_callback(outdata, frames, ...)
CallbackEnter ==
    /\ stream = "active"
    /\ cpc = "idle"
    /\ \E n \in Frames : frames' = n
    /\ cpc' = "check"
    /\ UNCHANGED <<organConfig, voices, lock, stream, callerVars, phase, open_close,
                   closed_all, otherVars>>

\* `if not self._voices`: the table read before the lock is taken; an empty table
\* gives a block of silence
CallbackCheck ==
    /\ cpc = "check"
    /\ IF DOMAIN voices = {}
       THEN /\ cpc' = "idle"
            /\ frames' = 0
            /\ open_close' = NoteBlock(open_close, frames)
       ELSE /\ cpc' = "acquire"
            /\ UNCHANGED <<frames, open_close>>
    /\ UNCHANGED <<organConfig, voices, lock, stream, callerVars, phase, closed_all,
                   otherVars>>

\* `with self._lock` of the callback
CallbackAcquire ==
    /\ cpc = "acquire"
    /\ lock = "free"
    /\ lock' = "callback"
    /\ cpc' = "mix"
    /\ UNCHANGED <<organConfig, voices, stream, callerVars, frames, phase,
                   open_close, closed_all, otherVars>>

\* the block mixed under the lock, the lock released, the callback returns
CallbackMix ==
    /\ cpc = "mix"
    /\ voices' = MixBlock(voices, frames)
    /\ open_close' = NoteBlock(open_close, frames)
    /\ lock' = "free"
    /\ cpc' = "idle"
    /\ frames' = 0
    /\ phase' = NextPhase(phase, frames)
    /\ UNCHANGED <<organConfig, stream, callerVars, closed_all, otherVars>>

Options ==
    [use_audio : BOOLEAN, backend : BOOLEAN,
     stream_init : {"ok", "create_raises", "start_raises"}]

\* self._sample_rate
SampleRates == {39999}

\* the stream is tried when use_audio and _SD_OK and np is not None
TriesStream(o) == o.use_audio /\ o.backend

\* mutant: a failed stream leaves audio on
InitUseAudioKeptOn(o) == TriesStream(o)

\* self._use_audio after __init__: set from the argument and the imports, and reset
\* to False when sd.OutputStream(...) or stream.start() raises
InitUseAudio(o) == TriesStream(o) /\ o.stream_init = "ok"

\* self._stream after __init__: None unless sd.OutputStream(...) returned; a stream
\* whose start() raised stays in self._stream
InitStream(o) ==
    IF ~TriesStream(o) \/ o.stream_init = "create_raises" THEN "none"
    ELSE IF o.stream_init = "start_raises" THEN "unstarted"
    ELSE "active"

\* PipeOrgan.__init__ has returned: audio is on with a started stream, or off with
\* no stream or with a stream whose start failed
InitOrgan ==
    /\ options \in Options
    /\ use_audio = InitUseAudio(options)
    /\ stream = InitStream(options)
    /\ ramp_samples \in RampSamples
    /\ sample_rate \in SampleRates
    /\ phase = 0
    /\ voices = <<>>
    /\ lock = "free"
    /\ spc = "ready"
    /\ valve_index = 0
    /\ found = <<>>
    /\ cpc = "idle"
    /\ frames = 0
    /\ open_close = NoOpenClose
    /\ closed_all = 0
    /\ MidiIdle
    /\ ParseIdle
    /\ BuildIdle
    /\ PlayIdle

NextOrgan ==
    \/ CallValveOpen \/ OpenAcquire \/ OpenBody
    \/ CallValveClose \/ CloseAcquire \/ CloseBody
    \/ ReleaseReturn
    \/ CallCloseAll \/ AllAcquire \/ AllTargets \/ AllSleep \/ AllReacquire
    \/ AllClear \/ AllStream
    \/ CallbackEnter \/ CallbackCheck \/ CallbackAcquire \/ CallbackMix

\* any calls on a PipeOrgan by one thread, the audio callback on another
SpecOrgan == InitOrgan /\ [][NextOrgan]_vars

\* PipeOrgan(ramp_duration=0.0): _ramp_samples = max(1, 0)
InitOrganShortRamp == InitOrgan /\ ramp_samples = 1

\* the statements inside a `with self._lock` block: no call that waits among them
UnderLock == OpenBody \/ CloseBody \/ ReleaseReturn \/ AllTargets \/ AllClear \/ CallbackMix

\* a thread inside a with block runs on to its end, and a thread waiting in
\* `with self._lock` gets the lock at one of the times it is free; the shortest
\* ramp, max(1, ...) samples, keeps the gains to 0 and 1
SpecOrganFair ==
    InitOrganShortRamp /\ [][NextOrgan]_vars /\ WF_vars(UnderLock) /\ SF_vars(CallbackAcquire)

----------------------------------------------------------------------------
(* main(): play_events on a PipeOrgan with audio, the callback on its own thread *)

\* events.sort(key=lambda e: (e[0], not e[1], e[2])) in main
MainKeyLess(a, b) ==
    \/ a.time < b.time
    \/ a.time = b.time /\ a.is_open /\ ~b.is_open
    \/ a.time = b.time /\ a.is_open = b.is_open /\ a.valve_index < b.valve_index

\* the command times of the driven events
DrivenTimes == {0, 1}

\* the event lists main hands to play_events: sorted, on the valves of the organ
DrivenEvents ==
    {evs \in UNION {[1..n -> {[time |-> t, is_open |-> o, valve_index |-> v,
                              tone |-> AnyTone(v)] :
                                 t \in DrivenTimes, o \in BOOLEAN, v \in OrganValves}] :
                     n \in 0..MaxEvents} :
        \A i \in 1..Len(evs) : \A j \in 1..Len(evs) :
            i < j => ~MainKeyLess(evs[j], evs[i])}

\* organ = PipeOrgan(use_audio=True, ramp_duration=0.0) with the stream started,
\* then play_events: the shortest ramp keeps the gains to 0 and 1
InitDrive ==
    /\ ParseIdle
    /\ MidiIdle
    /\ track = <<>>
    /\ turn_on_delay = 0
    /\ turn_off_delay = 0
    /\ speed = 1
    /\ start_time_limit = 0
    /\ stop_time_limit = <<>>
    /\ events \in DrivenEvents
    /\ pc = "built"
    /\ PlayIdle
    /\ options = [use_audio |-> TRUE, backend |-> TRUE, stream_init |-> "ok"]
    /\ use_audio = InitUseAudio(options)
    /\ stream = InitStream(options)
    /\ ramp_samples = 1
    /\ sample_rate \in SampleRates
    /\ phase = 0
    /\ voices = <<>>
    /\ lock = "free"
    /\ spc = "ready"
    /\ valve_index = 0
    /\ found = <<>>
    /\ cpc = "idle"
    /\ frames = 0
    /\ open_close = NoOpenClose
    /\ closed_all = 0

\* one iteration of the event loop up to the call of the organ: the sleep, then
\* organ.valve_open or organ.valve_close is entered unless the event is suppressed
DriveEvent ==
    /\ pc = "loop"
    /\ idx <= Len(events)
    /\ spc = "ready"
    /\ \E lag \in Lags :
          LET e == events[idx]
              at == WakeTime(e, now, lag)
              call == SinkCall(e, open_valves, at)
          IN /\ now' = at
             /\ calls' = calls \o call
             /\ IF call = <<>>
                THEN /\ idx' = idx + 1
                     /\ UNCHANGED <<pc, spc, valve_index>>
                ELSE /\ pc' = "call"
                     /\ valve_index' = e.valve_index
                     /\ spc' = IF ~use_audio THEN "ready"
                               ELSE IF e.is_open THEN "open_acquire" ELSE "close_acquire"
                     /\ UNCHANGED idx
    /\ UNCHANGED <<organConfig, voices, lock, stream, found, callbackVars, open_close,
                   closed_all, midiVars, parseVars, buildArgs, motorVars, events, open_valves,
                   pending>>

\* the organ call has returned: open_valves.add or open_valves.discard, and the
\* next iteration
DriveRecord ==
    /\ pc = "call"
    /\ spc = "ready"
    /\ open_valves' = RecordValve(events[idx], open_valves)
    /\ idx' = idx + 1
    /\ pc' = "loop"
    /\ UNCHANGED <<organVars, midiVars, parseVars, buildArgs, motorVars, events, calls, now,
                   pending>>

\* one iteration of the final loop: organ.valve_close(valve_index) is entered
DriveForceClose ==
    /\ pc = "flush"
    /\ spc = "ready"
    /\ \E v \in pending :
          /\ calls' = Append(calls, [op |-> "valve_close", valve |-> v, at |-> now])
          /\ pending' = pending \ {v}
          /\ valve_index' = v
    /\ spc' = IF use_audio THEN "close_acquire" ELSE "ready"
    /\ UNCHANGED <<organConfig, voices, lock, stream, found, callbackVars, open_close,
                   closed_all, midiVars, parseVars, buildArgs, motorVars, events, pc, idx,
                   open_valves, now>>

\* the last call has returned and play_events returns
DriveReturn ==
    /\ pc = "flush"
    /\ pending = {}
    /\ spc = "ready"
    /\ pc' = "done"
    /\ UNCHANGED <<organVars, midiVars, parseVars, buildArgs, motorVars, events, idx, open_valves,
                   calls, now, pending>>

NextDrive ==
    \/ PlayStart \/ DriveEvent \/ DriveRecord \/ PlayLoopEnd \/ DriveForceClose
    \/ DriveReturn
    \/ OpenAcquire \/ OpenBody \/ CloseAcquire \/ CloseBody \/ ReleaseReturn
    \/ CallbackEnter \/ CallbackCheck \/ CallbackAcquire \/ CallbackMix

\* play_events on one thread, the audio callback of its organ on another
SpecDrive == InitDrive /\ [][NextDrive]_vars

----------------------------------------------------------------------------
(* Properties of build_valve_events *)

Built == pc # "build"

EventIdx == 1..Len(events)

\* the positions of the Open (kind = TRUE) or Close events of one tone
EventsOf(tone, kind) ==
    {i \in EventIdx : events[i].tone.id = tone.id /\ events[i].is_open = kind}

\* the window length windowEnd - windowStart, for a finite windowEnd
WindowLength == Seconds(stop_time_limit[1]) - Seconds(start_time_limit)

\* C1 (as claimed): every Open event returned by build_valve_events has exactly one
\* matching Close event (same source interval, same channelIndex), and that Close's
\* commandTime is >= the Open's commandTime.
C1_CloseNotBeforeOpen ==
    Built =>
        \A i \in EventIdx :
            events[i].is_open =>
                LET m == {j \in EventIdx :
                             /\ ~events[j].is_open
                             /\ events[j].tone.id = events[i].tone.id
                             /\ events[j].valve_index = events[i].valve_index}
                IN /\ Cardinality(m) = 1
                   /\ \A j \in m : events[j].time >= events[i].time

\* C3: build_valve_events returns its events in non-decreasing order of the key
\* (commandTime, Open before Close, channelIndex): of two adjacent events the later
\* one never has a smaller commandTime, at equal commandTime a Close never precedes
\* an Open, and at equal commandTime and kind the channelIndex never decreases.
C3_SortedByKey ==
    Built =>
        \A i \in EventIdx :
            i < Len(events) =>
                LET a == events[i]
                    b == events[i + 1]
                IN /\ a.time <= b.time
                   /\ a.time = b.time => (b.is_open => a.is_open)
                   /\ (a.time = b.time /\ a.is_open = b.is_open)
                         => a.valve_index <= b.valve_index

\* C3 witness: two notes 60 and 64 with the same start and end give
\* Open(60), Open(64), Close(60), Close(64).
C3_Witness ==
    /\ Built
    /\ Len(events) = 4
    /\ events[1].is_open /\ events[1].valve_index = 12
    /\ events[2].is_open /\ events[2].valve_index = 16
    /\ ~events[3].is_open /\ events[3].valve_index = 12
    /\ ~events[4].is_open /\ events[4].valve_index = 16
    /\ events[1].time = events[2].time
    /\ events[3].time = events[4].time

C7_RelativeHalfOpen ==
    \A tone \in TrackTones :
        (Built /\ EventsOf(tone, TRUE) # {}) =>
            /\ RelativeStart(tone) >= 0
            /\ RelativeEnd(tone) >= 0
            /\ stop_time_limit # <<>> =>
                  /\ RelativeStart(tone) < WindowLength
                  /\ RelativeEnd(tone) < WindowLength

\* C7 (amended): for every surviving interval and a finite windowEnd,
\* relativeStart lies in [0, windowEnd - windowStart) and relativeEnd lies in
\* (0, windowEnd - windowStart], the upper end being reached by an interval clipped
\* at windowEnd; with windowEnd = None relativeStart >= 0 and relativeEnd > 0.
C7_RelativeInWindow ==
    \A tone \in TrackTones :
        (Built /\ EventsOf(tone, TRUE) # {}) =>
            /\ RelativeStart(tone) >= 0
            /\ RelativeEnd(tone) > 0
            /\ stop_time_limit # <<>> =>
                  /\ RelativeStart(tone) < WindowLength
                  /\ RelativeEnd(tone) <= WindowLength

\* C7 witness: an interval that runs past a finite windowEnd survives and its
\* relativeEnd is the window length.
C7_Witness ==
    /\ Built
    /\ stop_time_limit # <<>>
    /\ \E tone \in TrackTones :
          /\ EventsOf(tone, TRUE) # {}
          /\ tone.start_time + tone.duration > Seconds(stop_time_limit[1])
          /\ RelativeEnd(tone) = WindowLength

\* C8: for every surviving interval the Open commandTime is
\* max(0, relativeStart - turnOnDelay) and the Close commandTime is
\* max(0, relativeEnd - turnOffDelay); no event has a negative commandTime, and an
\* interval starting at the window start with turnOnDelay > 0 has its Open at 0.
C8_DelayCompensation ==
    Built =>
        /\ \A i \in EventIdx : events[i].time >= 0
        /\ \A tone \in TrackTones :
              /\ \A i \in EventsOf(tone, TRUE) :
                    LET d == RelativeStart(tone) - Seconds(turn_on_delay)
                    IN /\ events[i].time = (IF d > 0 THEN d ELSE 0)
                       /\ (RelativeStart(tone) = 0 /\ turn_on_delay > 0)
                             => events[i].time = 0
              /\ \A i \in EventsOf(tone, FALSE) :
                    LET d == RelativeEnd(tone) - Seconds(turn_off_delay)
                    IN events[i].time = (IF d > 0 THEN d ELSE 0)

\* C8 witness: turnOnDelay > 0 and an interval that starts at the window start:
\* its Open is clamped to 0 while its Close is later.
C8_Witness ==
    /\ Built
    /\ turn_on_delay > 0
    /\ \E tone \in TrackTones :
          /\ RelativeStart(tone) = 0
          /\ \E i \in EventsOf(tone, TRUE) : events[i].time = 0
          /\ \E i \in EventsOf(tone, FALSE) : events[i].time > 0

----------------------------------------------------------------------------
(* Properties of play_events *)

\* the sink calls issued on one channel, in order
RECURSIVE CallsOn(_, _)
CallsOn(log, c) ==
    IF log = <<>> THEN <<>>
    ELSE IF Head(log).valve = c THEN <<Head(log).op>> \o CallsOn(Tail(log), c)
    ELSE CallsOn(Tail(log), c)

\* channel c is open at the sink: its last call was valve_open
SinkOpen(c) ==
    LET s == CallsOn(calls, c) IN s # <<>> /\ s[Len(s)] = "valve_open"

Alternates(c) ==
    LET s == CallsOn(calls, c)
    IN \A k \in 1..Len(s) :
          s[k] = (IF k % 2 = 1 THEN "valve_open" ELSE "valve_close")

CountOf(c, op) ==
    LET s == CallsOn(calls, c) IN Cardinality({k \in 1..Len(s) : s[k] = op})

EventValves == {events[i].valve_index : i \in EventIdx}

\* C2 (as claimed): whenever one interval on channel c, opened earlier, has its
\* Close at the same commandTime at which another interval on the same channel has
\* its Open (and that interval's own Close is later), channel c is open at the sink
\* once all events of that commandTime have been dispatched.
C2_OpenBeforeCloseKeepsSounding ==
    \A i \in EventIdx : \A j \in EventIdx :
        ( /\ pc = "loop"
          /\ ~events[i].is_open
          /\ events[j].is_open
          /\ events[i].tone.id # events[j].tone.id
          /\ events[i].valve_index = events[j].valve_index
          /\ events[i].time = events[j].time
          /\ \A k \in EventsOf(events[i].tone, TRUE) : events[k].time < events[i].time
          /\ \A k \in EventsOf(events[j].tone, FALSE) : events[k].time > events[j].time
          /\ \A k \in EventIdx : events[k].time <= events[i].time <=> k < idx )
        => SinkOpen(events[i].valve_index)

\* C4 (as claimed): for every channel the sink calls alternate valve_open,
\* valve_close, starting with valve_open, and the open-channel record always equals
\* the set of channels whose last sink call was valve_open.
C4_RecordAlwaysMatchesSink ==
    /\ \A c \in EventValves : Alternates(c)
    /\ open_valves = {c \in EventValves : SinkOpen(c)}

\* C4 (amended): an Open for a channel recorded open and a Close for a channel not
\* recorded open issue no sink call; for every channel the sink calls alternate
\* valve_open, valve_close, starting with valve_open; and the open-channel record
\* equals the set of channels whose last sink call was valve_open for as long as
\* the event loop runs (the final force-close loop closes the channels at the sink
\* without removing them from the record).
C4_SuppressionAndAlternation ==
    /\ [](/\ \A c \in EventValves : Alternates(c)
          /\ pc \in {"built", "loop"}
                => open_valves = {c \in EventValves : SinkOpen(c)})
    /\ [][(pc = "loop" /\ idx <= Len(events)) =>
             LET e == events[idx]
             IN IF e.is_open = (e.valve_index \in open_valves)
                THEN calls' = calls /\ open_valves' = open_valves
                ELSE Len(calls') = Len(calls) + 1]_vars

\* C4 witness: a second Open of an open channel and a Close of a channel that is
\* not open were both dispatched, and one sink call was issued.
C4_Witness ==
    /\ pc = "loop"
    /\ idx = 4
    /\ events[1].is_open
    /\ events[2].is_open
    /\ events[2].valve_index = events[1].valve_index
    /\ ~events[3].is_open
    /\ events[3].valve_index # events[1].valve_index
    /\ Len(calls) = 1
    /\ open_valves = {events[1].valve_index}

\* C5: for any finite event list play_events terminates, and when it has returned
\* no channel is open at the sink and every channel has received exactly as many
\* valve_close calls as valve_open calls.
C5_TerminatesAllClosed ==
    /\ <>(pc = "done")
    /\ [](pc = "done" =>
             \A c \in EventValves :
                /\ ~SinkOpen(c)
                /\ CountOf(c, "valve_open") = CountOf(c, "valve_close"))

\* C5 witness: play_events has returned after force-closing a channel that the
\* event list left open.
C5_Witness ==
    /\ pc = "done"
    /\ open_valves # {}
    /\ calls # <<>>
    /\ calls[Len(calls)].op = "valve_close"
    /\ calls[Len(calls)].valve \in open_valves

----------------------------------------------------------------------------
(* Properties of process_track_events, stated on the message stream *)

MsgIdx == 1..Len(midi_track)

RECURSIVE AbsTick(_)
AbsTick(i) == IF i = 0 THEN 0 ELSE AbsTick(i - 1) + midi_track[i].time

FinalTick == AbsTick(Len(midi_track))

SameKey(i, j) ==
    /\ midi_track[i].type \in {"note_on", "note_off"}
    /\ midi_track[j].type \in {"note_on", "note_off"}
    /\ midi_track[i].note = midi_track[j].note
    /\ midi_track[i].channel = midi_track[j].channel

\* a note-on with non-zero velocity that no later note-off (or velocity-0 note-on)
\* of its key follows
Unclosed(i) ==
    /\ IsNoteStart(midi_track[i])
    /\ ~\E j \in MsgIdx : j > i /\ SameKey(i, j) /\ IsNoteEnd(midi_track[j])

\* a note-on with non-zero velocity that no later note message of its key follows
StillOpen(i) ==
    /\ IsNoteStart(midi_track[i])
    /\ ~\E j \in MsgIdx : j > i /\ SameKey(i, j)

\* note end j closes note-on i: i is the last note message of the key before j
Closes(i, j) ==
    /\ i < j
    /\ IsNoteStart(midi_track[i])
    /\ IsNoteEnd(midi_track[j])
    /\ SameKey(i, j)
    /\ ~\E k \in MsgIdx : i < k /\ k < j /\ SameKey(i, k)

\* the interval a note-on at message i gives when it ends `length` after it started
IntervalOf(i, length) ==
    [midi_note |-> midi_track[i].note,
     start_time |-> calculate_absolute_time(AbsTick(i)),
     duration |-> length,
     velocity |-> midi_track[i].velocity,
     start_tick |-> AbsTick(i)]

SpanTo(i, tick) ==
    calculate_absolute_time(tick) - calculate_absolute_time(AbsTick(i))

\* the flushed interval of a still-open note-on: duration max(span, 0.1 s)
FlushedOf(i) ==
    IntervalOf(i, IF SpanTo(i, FinalTick) >= Micros(100000)
                  THEN SpanTo(i, FinalTick) ELSE Micros(100000))

Occurrences(r) == Cardinality({k \in 1..Len(note_events) : note_events[k] = r})

\* C9 (as claimed): every note-on with non-zero velocity that has no closing
\* note-off before the end of the track gives one NoteInterval that starts at the
\* note-on's tick and ends at the final tick of the stream.
C9_UnclosedEndsAtFinalTick ==
    ppc = "sorted" =>
        \A i \in MsgIdx :
            Unclosed(i) =>
                \E k \in 1..Len(note_events) :
                    /\ note_events[k].midi_note = midi_track[i].note
                    /\ note_events[k].start_tick = AbsTick(i)
                    /\ note_events[k].start_time + note_events[k].duration
                          = calculate_absolute_time(FinalTick)

\* C9 (amended): every note-on with non-zero velocity that is followed by no later
\* note-on or note-off of the same (pitch, channel) key is recovered, never
\* dropped: it gives exactly one NoteInterval, starting at that note-on's tick, of
\* duration max(tickToSeconds(finalTick) - tickToSeconds(startTick), 0.1 s); an
\* earlier unclosed note-on of the same key is overwritten and gives no interval.
C9_StillOpenRecovered ==
    ppc = "sorted" =>
        /\ \A i \in MsgIdx :
              StillOpen(i) =>
                  Occurrences(FlushedOf(i)) =
                      Cardinality({i2 \in MsgIdx :
                                      StillOpen(i2) /\ FlushedOf(i2) = FlushedOf(i)})
                      + Cardinality({p \in MsgIdx \X MsgIdx :
                                        /\ Closes(p[1], p[2])
                                        /\ IntervalOf(p[1], SpanTo(p[1], AbsTick(p[2])))
                                              = FlushedOf(i)})
        /\ Len(note_events) =
              Cardinality({i \in MsgIdx : StillOpen(i)})
              + Cardinality({p \in MsgIdx \X MsgIdx : Closes(p[1], p[2])})

\* C9 witness: a note-on was overwritten by a later note-on of the same key, which
\* stayed open to the end and was flushed with the floor duration.
C9_Witness ==
    /\ ppc = "sorted"
    /\ Len(note_events) = 1
    /\ \E i \in MsgIdx : \E j \in MsgIdx :
          /\ i < j
          /\ IsNoteStart(midi_track[i])
          /\ SameKey(i, j)
          /\ AbsTick(i) < AbsTick(j)
          /\ StillOpen(j)
          /\ SpanTo(j, FinalTick) < Micros(100000)
          /\ note_events[1].start_tick = AbsTick(j)
          /\ note_events[1].duration = Micros(100000)

\* C10: a note-off (or velocity-0 note-on) for a key that has an open entry appends
\* exactly one interval, from the stored start tick to the current tick, and removes
\* that entry and no other; for a key without an open entry it leaves the open-note
\* table and the collected intervals unchanged.
C10_NoteEndFrame ==
    [][(ppc = "scan" /\ msg_i <= Len(midi_track) /\ IsNoteEnd(midi_track[msg_i])) =>
          LET m == midi_track[msg_i]
              open == {k \in 1..Len(active_notes) :
                          active_notes[k].note = m.note
                          /\ active_notes[k].channel = m.channel}
          IN IF open # {}
             THEN \E k \in open :
                     /\ note_events' =
                           Append(note_events,
                                  [midi_note |-> m.note,
                                   start_time |->
                                       calculate_absolute_time(active_notes[k].start_tick),
                                   duration |->
                                       calculate_absolute_time(AbsTick(msg_i))
                                       - calculate_absolute_time(active_notes[k].start_tick),
                                   velocity |-> active_notes[k].velocity,
                                   start_tick |-> active_notes[k].start_tick])
                     /\ active_notes' =
                           SubSeq(active_notes, 1, k - 1)
                           \o SubSeq(active_notes, k + 1, Len(active_notes))
             ELSE note_events' = note_events /\ active_notes' = active_notes]_vars

\* C10 witness: a note-on, its note-off, then a second note-off of the same key
\* were processed: one interval was emitted and the table is empty.
C10_Witness ==
    /\ ppc = "scan"
    /\ msg_i = 4
    /\ IsNoteStart(midi_track[1])
    /\ IsNoteEnd(midi_track[2]) /\ SameKey(1, 2)
    /\ IsNoteEnd(midi_track[3]) /\ SameKey(1, 3)
    /\ midi_track[2].time > 0
    /\ Len(note_events) = 1
    /\ note_events[1].duration > 0
    /\ active_notes = <<>>

----------------------------------------------------------------------------
(* Properties of the grouping step of process_track_events *)

\* the positions <<group, member>> of the yielded tones
TonePos ==
    {p \in (1..Len(tone_groups)) \X (1..MaxMsgs) : p[2] <= Len(tone_groups[p[1]])}

StartAt(p) == tone_groups[p[1]][p[2]].start_time

\* C11: the grouping step never places two intervals with identical start times
\* in different groups, and never places two intervals whose start times differ by
\* more than 1 ms in the same group.
C11_GroupsRespectTolerance ==
    ppc = "done" =>
        \A p \in TonePos : \A q \in TonePos :
            /\ StartAt(p) = StartAt(q) => p[1] = q[1]
            /\ StartAt(p) - StartAt(q) > Micros(1000) => p[1] # q[1]

\* C11 witness: two intervals with different start times less than 1 ms apart share
\* a group, two intervals with one start time share a group, and an interval more
\* than 1 ms later is in another group.
C11_Witness ==
    /\ ppc = "done"
    /\ \E p \in TonePos : \E q \in TonePos :
          p[1] = q[1] /\ StartAt(p) < StartAt(q)
    /\ \E p \in TonePos : \E q \in TonePos :
          p[1] # q[1] /\ StartAt(q) - StartAt(p) > Micros(1000)

\* two intervals with the same start time were grouped together
C11_WitnessSameStart ==
    /\ ppc = "done"
    /\ \E p \in TonePos : \E q \in TonePos :
          p[1] = q[1] /\ p[2] # q[2] /\ StartAt(p) = StartAt(q)

----------------------------------------------------------------------------
(* Properties of build_tempo_map and calculate_absolute_time *)

MapBuilt == mpc = "map"

\* the absolute tick of message i of a track: the sum of the delta times up to it
RECURSIVE TickSum(_, _)
TickSum(msgs, i) == IF i = 0 THEN 0 ELSE TickSum(msgs, i - 1) + msgs[i].time

\* the positions <<track, message>> of the set_tempo messages of the file
SetTempoPos ==
    {p \in (1..Len(midi_file)) \X (1..MaxTrackMsgs) :
        /\ p[2] <= Len(midi_file[p[1]])
        /\ midi_file[p[1]][p[2]].type = "set_tempo"}

TempoTickOf(p) == TickSum(midi_file[p[1]], p[2])

TempoOf(p) == midi_file[p[1]][p[2]].tempo

\* scan order: tracks in file order, messages in track order
ScanBefore(p, q) == p[1] < q[1] \/ (p[1] = q[1] /\ p[2] < q[2])

\* no later set_tempo message has the tick of p
LastAtTick(p) ==
    \A q \in SetTempoPos : (q # p /\ TempoTickOf(q) = TempoTickOf(p)) => ScanBefore(q, p)

\* C12: the tempo map returned by build_tempo_map has its first entry at tick 0,
\* the default 500000 when no set_tempo occurs at tick 0, and its ticks are
\* strictly increasing.
C12_FirstAtZeroStrictlyIncreasing ==
    MapBuilt =>
        /\ Len(tempo_map) >= 1
        /\ tempo_map[1][1] = 0
        /\ (\A p \in SetTempoPos : TempoTickOf(p) # 0) => tempo_map[1][2] = 500000
        /\ \A k \in 1..(Len(tempo_map) - 1) : tempo_map[k][1] < tempo_map[k + 1][1]

\* C12 witness: no set_tempo at tick 0, two set_tempo messages at one later tick,
\* and a map of two entries.
C12_Witness ==
    /\ MapBuilt
    /\ \A p \in SetTempoPos : TempoTickOf(p) # 0
    /\ \E p \in SetTempoPos : \E q \in SetTempoPos :
          p # q /\ TempoTickOf(p) = TempoTickOf(q)
    /\ Len(tempo_map) = 2

\* C13: for every tick at which set_tempo messages occur, the entry of that tick
\* carries the tempo of the last such message in scan order; a set_tempo at tick 0
\* replaces the default.
C13_KeepsLastTempo ==
    MapBuilt =>
        \A p \in SetTempoPos :
            LastAtTick(p) =>
                \E k \in 1..Len(tempo_map) : tempo_map[k] = <<TempoTickOf(p), TempoOf(p)>>

\* C13 witness: two tracks set different tempos at one tick after 0, the later track
\* wins, and a set_tempo at tick 0 has replaced the default.
C13_Witness ==
    /\ MapBuilt
    /\ \E p \in SetTempoPos : \E q \in SetTempoPos :
          /\ p[1] < q[1]
          /\ TempoTickOf(p) = TempoTickOf(q)
          /\ TempoTickOf(p) > 0
          /\ TempoOf(p) # TempoOf(q)
          /\ LastAtTick(q)
          /\ \E k \in 1..Len(tempo_map) : tempo_map[k] = <<TempoTickOf(q), TempoOf(q)>>
    /\ \E r \in SetTempoPos : TempoTickOf(r) = 0 /\ TempoOf(r) # 500000
    /\ tempo_map[1][2] # 500000

Queried(tick) == abs_times[tick] # <<>>

\* C14: calculate_absolute_time is non-decreasing in tick: for all ticks a <= b the
\* time of a is at most the time of b, also across tempo changes.
C14_NonDecreasing ==
    MapBuilt =>
        \A a \in QueryTicks : \A b \in QueryTicks :
            (a <= b /\ Queried(a) /\ Queried(b)) => abs_times[a][1] <= abs_times[b][1]

\* C14 witness: the times of a tick before and a tick after a change of tempo have
\* been calculated.
C14_Witness ==
    /\ MapBuilt
    /\ \E k \in 2..Len(tempo_map) : \E a \in QueryTicks : \E b \in QueryTicks :
          /\ a < tempo_map[k][1]
          /\ tempo_map[k][1] < b
          /\ tempo_map[k][2] # tempo_map[k - 1][2]
          /\ Queried(a)
          /\ Queried(b)
          /\ abs_times[a][1] < abs_times[b][1]

\* C15: for a tempo map with the single entry (0, T), calculate_absolute_time(n) is
\* n * T over the denominator ticks_per_beat * 1000000, for every n >= 0.
C15_SingleTempoClosedForm ==
    (MapBuilt /\ Len(tempo_map) = 1 /\ tempo_map[1][1] = 0) =>
        \A n \in QueryTicks : Queried(n) => abs_times[n][1] = n * tempo_map[1][2]

\* C15 witness: a single-entry map whose tempo is not the default, and the time of a
\* tick after 0 calculated.
C15_Witness ==
    /\ MapBuilt
    /\ Len(tempo_map) = 1
    /\ tempo_map[1][2] # 500000
    /\ \E n \in QueryTicks : n > 1 /\ Queried(n) /\ abs_times[n][1] = n * tempo_map[1][2]

----------------------------------------------------------------------------
(* Properties of PipeOrgan *)

\* the step is the body of valve_open / of valve_close
OpenStep == spc = "open_body" /\ spc' = "open_release"

CloseStep == spc = "close_body" /\ spc' = "close_release"

\* every voice but the one of valve c is as it was
OthersKept(c) ==
    /\ DOMAIN voices' \ {c} = DOMAIN voices \ {c}
    /\ \A d \in DOMAIN voices \ {c} : voices'[d] = voices[d]

\* C16: valve_open(c) with audio enabled sets only the target of an existing voice
\* of c to 1, its gain and frequency unchanged, and otherwise creates a voice with
\* gain 0 and target 1; valve_close(c) sets only the target of an existing voice to
\* 0 and otherwise leaves the table unchanged.
C16_OpenCloseEffect ==
    [][LET c == valve_index
       IN /\ OpenStep =>
                /\ c \in DOMAIN voices'
                /\ voices'[c].target = 1
                /\ IF c \in DOMAIN voices
                   THEN /\ voices'[c].gain = voices[c].gain
                        /\ voices'[c].freq = voices[c].freq
                   ELSE voices'[c].gain = 0
                /\ OthersKept(c)
          /\ CloseStep =>
                IF c \in DOMAIN voices
                THEN /\ c \in DOMAIN voices'
                     /\ voices'[c].target = 0
                     /\ voices'[c].gain = voices[c].gain
                     /\ voices'[c].freq = voices[c].freq
                     /\ OthersKept(c)
                ELSE voices' = voices]_vars

\* C16 witness: valve_open found a decaying voice and has set its target to 1, the
\* gain being the one found, while another voice is in the table.
C16_Witness ==
    /\ spc = "open_release"
    /\ found # <<>>
    /\ found[1].target = 0
    /\ found[1].gain > 0
    /\ voices[valve_index].target = 1
    /\ voices[valve_index].gain = found[1].gain
    /\ DOMAIN voices = OrganValves

\* valve_close found a voice with target 1 and has set it to 0
C16_WitnessClose ==
    /\ spc = "close_release"
    /\ found # <<>>
    /\ found[1].target = 1
    /\ found[1].gain > 0
    /\ voices[valve_index].target = 0

\* the gain a voice has when a step removes it: the end gain of the block in the
\* callback, its gain otherwise
RemovalGain(c) ==
    IF cpc = "mix" THEN EndGain(voices[c], frames) ELSE voices[c].gain

\* C17: under every interleaving of valve_open, valve_close, close_all and callback
\* blocks, a voice is removed from the table only when its target is 0 and its gain
\* is at or below epsilon.
C17_RemovedOnlyWhenSilent ==
    [][\A c \in DOMAIN voices :
          c \notin DOMAIN voices' =>
              /\ voices[c].target = 0
              /\ RemovalGain(c) * 10000 <= ramp_samples]_vars

\* the thread is at a statement that reads or writes self._voices
CallerAtVoices == spc \in {"open_body", "close_body", "all_targets", "all_clear"}

CallbackAtVoices == cpc \in {"check", "mix"}

\* C18: in no reachable state does the callback thread or the calling thread access
\* self._voices without holding self._lock.
C18_AccessOnlyUnderLock ==
    /\ CallerAtVoices => lock = "caller"
    /\ CallbackAtVoices => lock = "callback"

\* valve c was opened and closed at once, with no valve_open(c) since
ClosedAtOnce(c) == open_close[c].phase = "closed"

\* C19 as stated: after valve_open(c) followed immediately by valve_close(c), once
\* blocks totalling ramp_samples frames are processed the voice is gone, and it is
\* not removed earlier than that.
C19_RemovedAtRampNotBefore ==
    \A c \in OrganValves :
        ClosedAtOnce(c) =>
            (c \notin DOMAIN voices <=> open_close[c].blocks >= ramp_samples)

\* C19: after valve_open(c) followed immediately by valve_close(c), the voice of c
\* has target 0; it is gone once blocks totalling ramp_samples frames are processed
\* after the close; a voice that valve_open created is gone after the first block;
\* a voice still in the table after a block has a gain above epsilon.
C19_RemovedWithinRamp ==
    \A c \in OrganValves :
        ClosedAtOnce(c) =>
            /\ open_close[c].blocks >= ramp_samples => c \notin DOMAIN voices
            /\ (open_close[c].created /\ open_close[c].blocks > 0) => c \notin DOMAIN voices
            /\ c \in DOMAIN voices =>
                  /\ voices[c].target = 0
                  /\ open_close[c].blocks > 0 => voices[c].gain * 10000 > ramp_samples

\* C19 witness: a voice created by valve_open and closed at once has been removed
\* by a block shorter than the ramp.
C19_Witness ==
    \E c \in OrganValves :
        /\ ClosedAtOnce(c)
        /\ open_close[c].created
        /\ open_close[c].blocks > 0
        /\ open_close[c].blocks < ramp_samples
        /\ c \notin DOMAIN voices

\* a decaying voice reopened and closed at once is still in the table after a block
C19_WitnessDecaying ==
    \E c \in OrganValves :
        /\ ClosedAtOnce(c)
        /\ ~open_close[c].created
        /\ open_close[c].blocks > 0
        /\ c \in DOMAIN voices

\* C20: close_all with audio enabled first sets every target to 0, then waits
\* without holding the lock, then clears the table and releases the stream; when it
\* returns the table is empty and the stream is None, also on a second call.
C20_CloseAllSteps ==
    /\ [](spc \in {"all_sleep", "all_reacquire", "all_clear"} =>
             \A c \in DOMAIN voices : voices[c].target = 0)
    /\ [](spc = "all_sleep" => lock # "caller")
    /\ [](spc = "all_stream" /\ use_audio => DOMAIN voices = {})
    /\ [][spc = "all_stream" /\ spc' = "ready" =>
             DOMAIN voices' = {} /\ stream' = "none" /\ lock' # "caller"]_vars

\* C20 witness: with audio enabled a second close_all has returned, the table empty
\* and the stream None.
C20_Witness ==
    /\ use_audio
    /\ closed_all = 2
    /\ spc = "ready"
    /\ DOMAIN voices = {}
    /\ stream = "none"

\* close_all is about to clear a table that holds a voice above epsilon
C20_WitnessClearsSounding ==
    /\ spc = "all_clear"
    /\ \E c \in DOMAIN voices : voices[c].gain * 10000 > ramp_samples

----------------------------------------------------------------------------
(* Properties of PipeOrgan without audio, of its gains and of its phase *)

\* audio is disabled, the backend is unavailable, or the creation of the stream
\* raises
StubCase ==
    ~options.use_audio \/ ~options.backend \/ options.stream_init = "create_raises"

C22_NeverEvaluatedUnvalidated ==
    (\E tick \in QueryTicks : Queried(tick)) => ticks_per_beat > 0

\* the sink calls one step of play_events adds
NewCalls == SubSeq(calls', Len(calls) + 1, Len(calls'))

\* C23: play_events processes the events strictly in list order, one per iteration
\* and none skipped; the sink command of an event is issued at an elapsed time
\* that is never before an earlier one and at least the event's commandTime; the
\* loop sleeps exactly when the commandTime is ahead of the elapsed time (it then
\* resumes at the commandTime or later) and does not sleep when the wake point has
\* passed (only the time of the iteration goes by).
C23_InOrderOnTime ==
    /\ [][pc = "loop" =>
             IF idx <= Len(events)
             THEN LET e == events[idx]
                  IN /\ idx' = idx + 1
                     /\ events' = events
                     /\ pc' = "loop"
                     /\ now' >= now
                     /\ now' >= e.time
                     /\ e.time > now => (now' - e.time) \in Lags
                     /\ e.time <= now => (now' - now) \in Lags
                     /\ Len(calls') <= Len(calls) + 1
                     /\ SubSeq(calls', 1, Len(calls)) = calls
                     /\ \A k \in 1..Len(NewCalls) :
                           /\ NewCalls[k].valve = e.valve_index
                           /\ NewCalls[k].op = (IF e.is_open THEN "valve_open"
                                                ELSE "valve_close")
                           /\ NewCalls[k].at = now'
             ELSE pc' = "flush" /\ idx' = idx /\ calls' = calls /\ now' = now]_vars
    /\ [](\A i \in 1..Len(calls) : \A j \in i..Len(calls) : calls[i].at <= calls[j].at)
    /\ [](pc \in {"flush", "done"} => idx = Len(events) + 1)

\* C23 witness: the loop slept before the first event, whose commandTime was ahead,
\* and did not sleep before the second, whose commandTime had passed; both sink
\* commands were issued in list order.
C23_Witness ==
    /\ pc = "loop"
    /\ idx = 3
    /\ events[1].time = 2
    /\ events[2].time = 1
    /\ events[1].is_open
    /\ events[2].is_open
    /\ events[2].valve_index # events[1].valve_index
    /\ Len(calls) = 2
    /\ calls[1].at = 2
    /\ calls[2].at = 3

\* the step is one callback block that mixed the table
BlockStep == cpc = "mix" /\ cpc' = "idle"

\* C24: in every callback block the gain of each voice moves toward its target by
\* at most frames / ramp_samples and never past the target; under any interleaving
\* of valve_open, valve_close and callback blocks every gain stays within [0, 1],
\* every target is 0 or 1, and a step that is not a callback block changes no gain
\* of a voice it keeps.
C24_GainRampBounded ==
    /\ [](\A c \in DOMAIN voices :
            /\ voices[c].target \in {0, 1}
            /\ voices[c].gain >= 0
            /\ voices[c].gain <= ramp_samples)
    /\ [][\A c \in DOMAIN voices \cap DOMAIN voices' :
            LET gain == voices[c].gain
                end_gain == voices'[c].gain
                goal == voices[c].target * ramp_samples
            IN IF BlockStep
               THEN /\ Abs(end_gain - gain) <= frames
                    /\ Abs(goal - end_gain) <= Abs(goal - gain)
                    /\ gain <= goal => (gain <= end_gain /\ end_gain <= goal)
                    /\ gain >= goal => (goal <= end_gain /\ end_gain <= gain)
                    /\ end_gain # goal => Abs(end_gain - gain) = frames
               ELSE end_gain = gain]_vars

\* C24 witness: a voice that was closed while it was still ramping up is part-way
\* down its ramp after further blocks.
C24_Witness ==
    /\ cpc = "idle"
    /\ ramp_samples = 40000
    /\ \E c \in DOMAIN voices :
          /\ voices[c].target = 0
          /\ voices[c].gain = 13333

\* the calling thread is at the table mutation of valve_open, valve_close or
\* close_all, or at the end of the with block
CallerInWith ==
    spc \in {"open_body", "open_release", "close_body", "close_release", "all_targets",
             "all_clear"}

RECURSIVE Pow2(_)
Pow2(k) == IF k = 0 THEN 1 ELSE 2 * Pow2(k - 1)

\* freq * seconds is a whole number of cycles: 440 * 2^(twelfths / 12) is rational
\* only for whole octaves from A4
WholeCycles(freq, seconds) ==
    \/ seconds = 0
    \/ /\ freq.twelfths % 12 = 0
       /\ \/ freq.twelfths >= 0
          \/ (freq.a4 * seconds) % Pow2((0 - freq.twelfths) \div 12) = 0

\* C26: the sine phase of a sounding voice is continuous across block boundaries:
\* the angle 2 pi freq t of the first sample of a block continues the angle of the
\* last sample of the block before by one sample step, for any frequency, also
\* where the accumulator wraps modulo sample_rate (the samples the accumulator
\* drops at a block boundary amount to a whole number of cycles of every voice).
C26_PhaseContinuous ==
    [][BlockStep =>
          \A c \in DOMAIN voices \cap DOMAIN voices' :
             WholeCycles(voices[c].freq, (phase + frames - phase') \div sample_rate)]_vars

\* C27: after every callback block that found the table non-empty no voice with
\* target 0 and gain at or below epsilon is left in the table (every voice left has
\* target 1 or a gain above epsilon), and the block removes no voice whose target
\* is 1.
C27_ReapedAtBlockEnd ==
    [][BlockStep =>
          /\ \A c \in DOMAIN voices' :
                voices'[c].target = 1 \/ voices'[c].gain * 10000 > ramp_samples
          /\ \A c \in DOMAIN voices :
                voices[c].target = 1 => c \in DOMAIN voices']_vars

\* C27 witness: of two voices one, closed, was reaped by a block that left the
\* other, open, in the table.
C27_Witness ==
    /\ cpc = "idle"
    /\ spc = "ready"
    /\ closed_all = 0
    /\ open_close[9].phase = "closed"
    /\ open_close[9].blocks > 0
    /\ 9 \notin DOMAIN voices
    /\ 0 \in DOMAIN voices
    /\ voices[0].target = 1
    /\ voices[0].gain > 0

\* C28: every interval process_track_events emits has a duration >= 0; the interval
\* flushed at the end of the stream for a still-open note has the duration
\* max(time(final tick) - time(start tick), 0.1 s), hence at least 0.1 s; the
\* interval closed by a note-off has the plain difference of the two times, with
\* no floor, which may be 0.
C28_DurationsAndFloor ==
    ppc = "sorted" =>
        /\ \A k \in 1..Len(note_events) : note_events[k].duration >= 0
        /\ \A i \in MsgIdx :
              StillOpen(i) =>
                  \E k \in 1..Len(note_events) :
                      /\ note_events[k].midi_note = midi_track[i].note
                      /\ note_events[k].start_tick = AbsTick(i)
                      /\ note_events[k].velocity = midi_track[i].velocity
                      /\ note_events[k].duration =
                            Max(SpanTo(i, FinalTick), Micros(100000))
                      /\ note_events[k].duration >= Micros(100000)
        /\ \A i \in MsgIdx : \A j \in MsgIdx :
              Closes(i, j) =>
                  \E k \in 1..Len(note_events) :
                      /\ note_events[k].midi_note = midi_track[i].note
                      /\ note_events[k].start_tick = AbsTick(i)
                      /\ note_events[k].velocity = midi_track[i].velocity
                      /\ note_events[k].duration = SpanTo(i, AbsTick(j))

\* C28 witness: one note was closed by a note-off at its own tick and has duration
\* 0; another stayed open to the end, less than 0.1 s after it started, and has
\* the floor duration.
C28_Witness ==
    /\ ppc = "sorted"
    /\ Len(note_events) = 2
    /\ \E i \in MsgIdx : \E j \in MsgIdx :
          /\ Closes(i, j)
          /\ AbsTick(i) = AbsTick(j)
          /\ \E k \in 1..2 :
                note_events[k].start_tick = AbsTick(i) /\ note_events[k].duration = 0
    /\ \E i \in MsgIdx :
          /\ StillOpen(i)
          /\ SpanTo(i, FinalTick) < Micros(100000)
          /\ \E k \in 1..2 :
                /\ note_events[k].midi_note = midi_track[i].note
                /\ note_events[k].duration = Micros(100000)

GroupIdx == 1..Len(tone_groups)

MemberIdx(g) == 1..Len(tone_groups[g])

\* the anchor of a yielded group: the start time of its first interval in
\* (start_time, midi_note) order, the earliest start time among its members
AnchorOf(g) ==
    CHOOSE a \in {tone_groups[g][m].start_time : m \in MemberIdx(g)} :
        \A m \in MemberIdx(g) : a <= tone_groups[g][m].start_time

\* C29: the anchor of a group is the start time of its first interval in
\* (start_time, pitch) order and later members do not shift it: every member starts
\* less than 1 ms after the anchor, and the first interval of the next group starts
\* 1 ms or more after the anchor of the group before it (it did not join), however
\* close it is to that group's last member; every group is non-empty and ascending
\* by pitch, and the groups come in non-decreasing start-time order.
C29_AnchorIsFirstStart ==
    ppc = "done" =>
        /\ \A g \in GroupIdx :
              /\ tone_groups[g] # <<>>
              /\ \A m \in MemberIdx(g) :
                    /\ tone_groups[g][m].start_time - AnchorOf(g) < Micros(1000)
                    /\ \A n \in MemberIdx(g) :
                          m < n => tone_groups[g][m].midi_note <= tone_groups[g][n].midi_note
        /\ \A g \in GroupIdx :
              g < Len(tone_groups) =>
                  /\ AnchorOf(g + 1) - AnchorOf(g) >= Micros(1000)
                  /\ \A m \in MemberIdx(g) : \A n \in MemberIdx(g + 1) :
                        tone_groups[g][m].start_time <= tone_groups[g + 1][n].start_time

\* C29 witness: intervals starting at 0, 0.625 ms and 1.25 ms gave the groups
\* {0, 0.625 ms} and {1.25 ms}: the third is within 1 ms of the second but not of
\* the anchor.
C29_Witness ==
    /\ ppc = "done"
    /\ Len(tone_groups) = 2
    /\ Len(tone_groups[1]) = 2
    /\ Len(tone_groups[2]) = 1
    /\ AnchorOf(1) = 0
    /\ \E m \in MemberIdx(1) : tone_groups[1][m].start_time = Micros(625)
    /\ tone_groups[2][1].start_time = Micros(1250)

\* how often a tone is among the extracted intervals, and among the yielded tones
InIntervals(tone) ==
    Cardinality({k \in 1..Len(note_events) : GroupTone(note_events[k]) = tone})

InGroups(tone) == Cardinality({p \in TonePos : tone_groups[p[1]][p[2]] = tone})

EndOf(k) == note_events[k].start_time + note_events[k].duration

\* C30: grouping loses and duplicates nothing: the tones over all yielded groups
\* are, with their multiplicities, the extracted intervals; so len(track) is the
\* number of extracted intervals and track.duration is the greatest
\* start_time + duration among them (0 when there is none).
C30_GroupingKeepsEveryTone ==
    /\ ppc \in {"done", "info"} =>
          /\ \A k \in 1..Len(note_events) :
                InGroups(GroupTone(note_events[k])) = InIntervals(GroupTone(note_events[k]))
          /\ \A p \in TonePos :
                InIntervals(tone_groups[p[1]][p[2]]) = InGroups(tone_groups[p[1]][p[2]])
          /\ Cardinality(TonePos) = Len(note_events)
    /\ ppc = "info" =>
          /\ track_info.note_count = <<Len(note_events)>>
          /\ \A k \in 1..Len(note_events) : track_info.duration[1] >= EndOf(k)
          /\ \/ \E k \in 1..Len(note_events) : track_info.duration[1] = EndOf(k)
             \/ note_events = <<>> /\ track_info.duration = <<0>>

\* C30 witness: three intervals, two of them equal as tones, were yielded in two
\* groups, and the track's length and duration were computed from them.
C30_Witness ==
    /\ ppc = "info"
    /\ Len(note_events) = 3
    /\ Len(tone_groups) = 2
    /\ \E k \in 1..3 : InIntervals(GroupTone(note_events[k])) = 2
    /\ track_info.note_count = <<3>>
    /\ track_info.duration[1] > Micros(100000)

----------------------------------------------------------------------------
(* Properties of play_events on a PipeOrgan with audio *)

\* the voice of a channel has target 1
Sounding(c) == c \in DOMAIN voices /\ voices[c].target = 1

\* the voice table agrees with a record of open channels on channel c
TableAgrees(record, c) == (c \in record) <=> Sounding(c)

\* the statement of valve_open or valve_close that writes the table has run
BodyDone == spc \in {"open_release", "close_release", "ready"}

\* C31 (as claimed): in every reachable state of play_events on a PipeOrgan with
\* audio, a channel recorded open has a voice with target 1 and a channel not
\* recorded open has no voice or a voice with target 0.
C31_RecordMatchesTable ==
    \A c \in OrganValves : TableAgrees(open_valves, c)

\* C31 (amended): the record and the voice table agree whenever play_events is
\* between two iterations of its event loop. Inside an iteration they agree on
\* every channel but the event's, whose voice follows the record as it was until
\* the organ call has written the table and the record as it will be from then on
\* (the record is updated after the call returns). In the final loop, which closes
\* channels without removing them from the record, a channel not recorded open
\* still has no voice with target 1, a recorded channel not yet closed has one, and
\* when play_events returns no voice has target 1.
C31_RecordMatchesTableBetweenEvents ==
    /\ pc \in {"built", "loop"} => \A c \in OrganValves : TableAgrees(open_valves, c)
    /\ pc = "call" =>
          \A c \in OrganValves :
             IF c = events[idx].valve_index /\ BodyDone
             THEN TableAgrees(RecordValve(events[idx], open_valves), c)
             ELSE TableAgrees(open_valves, c)
    /\ pc \in {"flush", "done"} =>
          \A c \in OrganValves :
             /\ c \notin open_valves => ~Sounding(c)
             /\ c \in pending => Sounding(c)
             /\ (c \in open_valves \ pending /\ (c # valve_index \/ BodyDone)) => ~Sounding(c)
    /\ pc = "done" => \A c \in OrganValves : ~Sounding(c)

\* C31 witness: between two iterations, with the callback inside a block, one
\* channel is recorded open and sounds, and another, closed by an event, is not
\* recorded and still has its voice with target 0.
C31_Witness ==
    /\ pc = "loop"
    /\ idx = 4
    /\ cpc = "acquire"
    /\ phase # 0
    /\ open_valves = {0}
    /\ Sounding(0)
    /\ 9 \in DOMAIN voices
    /\ voices[9].target = 0

----------------------------------------------------------------------------
(* Properties of the clipping in build_valve_events *)

\* the interval of a tone cut to the window: <<clippedStart, clippedEnd>>, on the
\* scaled time line
ClipOf(tone) ==
    LET s == tone.start_time
        e == tone.start_time + tone.duration
        ws == Seconds(start_time_limit)
    IN <<IF s >= ws THEN s ELSE ws,
         IF stop_time_limit = <<>> THEN e
         ELSE IF e <= Seconds(stop_time_limit[1]) THEN e
         ELSE Seconds(stop_time_limit[1])>>

----------------------------------------------------------------------------
(* example_stepper_player.py: one motor driven at the frequency of the     *)
(* first tone of every group. Times are numerators over `speed`.           *)

\* tick_seconds = tone.duration / tone.duration_ticks;
\* duration = (tone.duration_ticks * tick_seconds) / speed, or tone.duration / speed
\* when duration_ticks is 0
StepperDuration(tone) ==
    IF tone.duration_ticks # 0
    THEN (tone.duration_ticks * tone.duration) \div tone.duration_ticks
    ELSE tone.duration

\* start_time = tone.start_time / speed; freq = tone.frequency, which the Tone
\* constructor set to midi_to_frequency(midi_note)
StartEvt(tone) ==
    [time |-> tone.start_time, is_start |-> TRUE,
     freq |-> midi_to_frequency(tone.midi_note), tone |-> tone]

StopEvt(tone) ==
    [time |-> tone.start_time + StepperDuration(tone), is_start |-> FALSE,
     freq |-> midi_to_frequency(tone.midi_note), tone |-> tone]

\* the loop body: an empty group is skipped, of any other the first tone is taken
StepperGroupEvents(tone_group) ==
    IF tone_group = <<>> THEN <<>>
    ELSE <<StartEvt(tone_group[1]), StopEvt(tone_group[1])>>

RECURSIVE StepperTrackEvents(_)
StepperTrackEvents(groups) ==
    IF groups = <<>> THEN <<>>
    ELSE StepperGroupEvents(Head(groups)) \o StepperTrackEvents(Tail(groups))

\* key=lambda e: (e[0], not e[1]); False sorts before True
StepperKeyLess(a, b) ==
    \/ a.time < b.time
    \/ a.time = b.time /\ a.is_start /\ ~b.is_start

\* list.sort is stable
RECURSIVE StepperInsertEvent(_, _)
StepperInsertEvent(sorted, e) ==
    IF sorted = <<>> THEN <<e>>
    ELSE IF StepperKeyLess(e, Head(sorted)) THEN <<e>> \o sorted
    ELSE <<Head(sorted)>> \o StepperInsertEvent(Tail(sorted), e)

RECURSIVE StepperSortEvents(_)
StepperSortEvents(evs) ==
    IF evs = <<>> THEN <<>>
    ELSE StepperInsertEvent(StepperSortEvents(SubSeq(evs, 1, Len(evs) - 1)),
                            evs[Len(evs)])

build_events(groups) == StepperSortEvents(StepperTrackEvents(groups))

\* StepperInterface.set_frequency: None stops the motor, a frequency runs it
set_frequency(frequency_hz) == frequency_hz

\* StepperInterface.stop: self.set_frequency(None)
motor_stop == set_frequency(<<>>)

\* wait = event_time - elapsed; time.sleep(wait) when wait > 0 returns no earlier
\* than asked; `lag` is the oversleep, or the time the iteration takes
StepperWakeTime(e, elapsed, lag) ==
    IF e.time - elapsed > 0 THEN elapsed + (e.time - elapsed) + lag
    ELSE elapsed + lag

\* main() has parsed --speed and read the track; no motor exists yet
InitStepper ==
    /\ ParseIdle
    /\ MidiIdle
    /\ OrganIdle
    /\ track \in Tracks
    /\ speed \in Speeds
    /\ turn_on_delay = 0
    /\ turn_off_delay = 0
    /\ start_time_limit = 0
    /\ stop_time_limit = <<>>
    /\ events = <<>>
    /\ pc = "build"
    /\ PlayIdle

\* events = build_events(track=track, speed=args.speed)
StepperBuild ==
    /\ pc = "build"
    /\ events' = build_events(track)
    /\ pc' = "built"
    /\ UNCHANGED <<organVars, midiVars, parseVars, buildArgs, motorVars, idx, open_valves,
                   calls, now, pending>>

\* `if not events: return`
StepperNoEvents ==
    /\ pc = "built"
    /\ events = <<>>
    /\ pc' = "returned"
    /\ UNCHANGED <<organVars, midiVars, parseVars, buildArgs, motorVars, events, idx,
                   open_valves, calls, now, pending>>

\* motor = StepperInterface(); play_events: start = time.monotonic()
StepperPlayStart ==
    /\ pc = "built"
    /\ events # <<>>
    /\ active_freq' = <<>>
    /\ pc' = "loop"
    /\ idx' = 1
    /\ now' = 0
    /\ UNCHANGED <<organVars, midiVars, parseVars, buildArgs, events, open_valves, calls,
                   pending>>

\* one iteration of `for event_time, is_start, freq, tone in events`
StepperPlayEvent ==
    /\ pc = "loop"
    /\ idx <= Len(events)
    /\ \E lag \in Lags :
          now' = StepperWakeTime(events[idx], now, lag)
    /\ active_freq' = IF events[idx].is_start
                      THEN set_frequency(<<events[idx].freq>>)
                      ELSE motor_stop
    /\ idx' = idx + 1
    /\ UNCHANGED <<organVars, midiVars, parseVars, buildArgs, events, pc, open_valves,
                   calls, pending>>

\* motor.stop() after the loop; play_events returns
StepperPlayReturn ==
    /\ pc = "loop"
    /\ idx > Len(events)
    /\ active_freq' = motor_stop
    /\ pc' = "done"
    /\ UNCHANGED <<organVars, midiVars, parseVars, buildArgs, events, idx, open_valves,
                   calls, now, pending>>

NextStepper ==
    \/ StepperBuild
    \/ StepperNoEvents
    \/ StepperPlayStart
    \/ StepperPlayEvent
    \/ StepperPlayReturn

SpecStepper == InitStepper /\ [][NextStepper]_vars

----------------------------------------------------------------------------
(* Properties of the stepper playback *)

\* the tone the motor plays of each group
SelectedTones == {track[g][1] : g \in {h \in 1..Len(track) : track[h] # <<>>}}

\* the positions of the start (kind = TRUE) or stop events of a tone
StepperEventsOf(tone, kind) ==
    {i \in 1..Len(events) : events[i].tone = tone /\ events[i].is_start = kind}

\* no two selected tones sound at the same time; one may start when another stops
NoOverlap ==
    \A a \in SelectedTones : \A b \in SelectedTones :
        a # b =>
            \/ a.start_time + a.duration <= b.start_time
            \/ b.start_time + b.duration <= a.start_time

\* the loop waits for a later instant: every event of the instant of the last
\* dispatched event has been dispatched, and the next event is due later
BetweenInstants ==
    /\ idx > 1
    /\ idx <= Len(events)
    /\ events[idx - 1].time < events[idx].time

\* C33: build_events emits exactly one start and one stop event per non-empty tone
\* group, of the first tone of the group, sorted by (time, start before stop);
\* while play_events dispatches them the motor runs at a tone's frequency at every
\* wait of the loop between that tone's start event and its stop event whenever
\* the selected tones do not overlap in time, a tone that starts exactly when the
\* previous one stops included; and the motor is stopped when play_events returns.
C33_MotorFollowsSelectedTones ==
    /\ Built =>
          /\ Len(events) = 2 * Cardinality(SelectedTones)
          /\ \A tone \in SelectedTones :
                /\ Cardinality(StepperEventsOf(tone, TRUE)) = 1
                /\ Cardinality(StepperEventsOf(tone, FALSE)) = 1
                /\ \A i \in StepperEventsOf(tone, TRUE) :
                      /\ events[i].time = tone.start_time
                      /\ events[i].freq = midi_to_frequency(tone.midi_note)
                /\ \A i \in StepperEventsOf(tone, FALSE) :
                      /\ events[i].time = tone.start_time + tone.duration
                      /\ events[i].freq = midi_to_frequency(tone.midi_note)
          /\ \A i \in 1..Len(events) : \A j \in 1..Len(events) :
                i < j =>
                    \/ events[i].time < events[j].time
                    \/ /\ events[i].time = events[j].time
                       /\ events[i].is_start \/ ~events[j].is_start
    /\ (pc = "loop" /\ NoOverlap) =>
          \A tone \in SelectedTones :
              \A i \in StepperEventsOf(tone, TRUE) :
                  \A j \in StepperEventsOf(tone, FALSE) :
                      (i < idx /\ idx <= j /\ BetweenInstants) =>
                          active_freq = <<midi_to_frequency(tone.midi_note)>>
    /\ pc = "done" => active_freq = <<>>

====
